---- MODULE Spec2Model ----
(***************************************************************************)
(* Verification model of the Nova Pro dashboard validation harness:        *)
(*   - the static template validator (scripts/validate-template.py),       *)
(*   - the live probe (test_dashboard_metrics.py).                         *)
(*                                                                         *)
(* The template text is modelled by what the validator can observe of it:  *)
(* the set of marker substrings it contains, the set of names captured by  *)
(* the regular expression sns:(\w+), the number of lines matching the      *)
(* resource-line pattern, and its size in bytes.                           *)
(***************************************************************************)
EXTENDS Integers, Sequences, FiniteSets, TLC

VARIABLES
    \* static validator (scripts/validate-template.py)
    tpl,        \* the template file given on the command line (immutable input)
    run,        \* which of the two fresh validator processes is running
    prev,       \* outcome of the first validator process, once it has exited
    vpc,        \* position of the validator process
    errors,     \* TemplateValidator.errors
    warnings,   \* TemplateValidator.warnings
    info,       \* TemplateValidator.info
    success,    \* value returned by run_validation: "none", "True", "False"
    vexit,      \* exit status of the validator process, -1 while running
    \* live probe (test_dashboard_metrics.py)
    args,           \* command line: [invocations, wait_minutes]
    ppc,            \* position of the probe process
    stack,          \* _get_stack_info: "pending", "ok" or "raised"
    test_results,   \* records appended by generate_test_invocations
    minute,         \* one-minute sleeps completed by wait_for_metrics_propagation
    calls,          \* monitoring calls made by verify_dashboard_widgets and how they ended
    widget_verification,    \* value returned by verify_dashboard_widgets
    cost_verification,      \* value returned by verify_cost_calculations
    report,         \* overall line of the printed report, "none" before it is printed
    report_file,    \* whether the timestamped report file has been written
    phases,         \* history: the phases entered so far, in order (Invoking =
                    \* generate_test_invocations, Waiting = wait_for_metrics_propagation,
                    \* Querying = verify_dashboard_widgets, Verifying =
                    \* verify_cost_calculations, Reporting = generate_test_report)
    pexit,          \* exit status of the probe process, -1 while running
    \* widget verifier (verify_dashboard_widgets.py)
    wfocus,         \* which of the two service responses the run varies: "titles" or "metrics"
    wpc,            \* position of the verifier process
    widgets_n,      \* len(widgets) of the dashboard body returned by get_dashboard
    widx,           \* number of widgets the categorisation loop has read
    title,          \* title of the widget in the loop body, 'Untitled' outside it
    metrics_data,   \* metrics_data: series id -> [present, latest, total]
    tpm,            \* service_tpm and customer_tpm, each as numerator / denominator
    widget_categories,  \* widget_categories: category -> count
    unmatched,      \* history: widgets read whose title holds no keyword at all
    wret,           \* value returned by verify_dashboard_widgets: "none", "True", "False"
    wexit,          \* exit status of the verifier process, -1 while running
    \* template test suite (test_template_properties.py)
    tname,          \* the rule under test
    tpc,            \* position of the test function
    tdoc,           \* the part of the template file the rule reads
    textracted,     \* value returned by the rule's extractor
    tidx,           \* number of widgets the rule's loop has read
    twidget,        \* the widget in the loop body
    toutcome,       \* "none" while running, then "passed" or "failed"
    tfailure,       \* what the failed assertion's message names, "" if nothing
    \* the validator's rules called in another order
    done            \* the rules called so far, in the order of the calls

vvars == <<tpl, run, prev, vpc, errors, warnings, info, success, vexit>>

pvars == <<args, ppc, stack, test_results, minute, calls, widget_verification,
           cost_verification, report, report_file, phases, pexit>>

wvars == <<wfocus, wpc, widgets_n, widx, title, metrics_data, tpm, widget_categories,
           unmatched, wret, wexit>>

tvars == <<tname, tpc, tdoc, textracted, tidx, twidget, toutcome, tfailure>>

ovars == <<done>>

vars == <<vvars, pvars, wvars, tvars, ovars>>

\* the variables of the other programs, which a step of one program leaves alone
notV == <<pvars, wvars, tvars, ovars>>
notP == <<vvars, wvars, tvars, ovars>>
notW == <<vvars, pvars, tvars, ovars>>
notT == <<vvars, pvars, wvars, ovars>>

-----------------------------------------------------------------------------
(* Bounds of the model *)

\* number of edits applied to the reference template to obtain an input
MaxEdits == 2
\* largest number of resource lines an input template has
MaxResourceLines == 2
\* largest --invocations argument
MaxInvocations == 10
\* largest --wait-minutes argument
MaxWaitMinutes == 2
\* largest number of widgets in a dashboard body
MaxWidgets == 2
\* largest number of keywords in one widget title
MaxTitleWords == 2
\* largest number of data points in one metric series
MaxPoints == 2
\* largest number of metrics in one widget of the template's dashboard
MaxMetrics == 2
\* largest number of edits of a template whose rules are called in every order
MaxOrderEdits == 1
\* largest number of resources, or of policy statements, whose declaration
\* departs from the reference one
MaxDeviations == 1

-----------------------------------------------------------------------------
(* Vocabulary of validate-template.py *)

required_sections ==
    <<"AWSTemplateFormatVersion", "Description", "Parameters", "Resources", "Outputs">>

valid_sns_actions ==
    {"AddPermission", "DeleteTopic", "GetDataProtectionPolicy",
     "GetTopicAttributes", "ListSubscriptionsByTopic", "ListTagsForResource",
     "Publish", "PutDataProtectionPolicy", "RemovePermission",
     "SetTopicAttributes", "Subscribe"}

required_resources == <<"AWS::CloudWatch::Dashboard", "AWS::CloudWatch::Alarm">>

optional_resources == <<"AWS::SNS::Topic", "AWS::IAM::Role", "AWS::IAM::ManagedPolicy">>

tag_keys == <<"Environment", "Owner", "CostCenter", "Purpose">>

alarm_types == <<"ErrorRate", "Latency", "Cost", "Throttling">>

\* if size > 51200
SizeLimit == 51200

Range(s) == {s[i] : i \in DOMAIN s}

\* A marker is a pair <<kind, name>>: a substring (or regular-expression
\* match) whose presence in the text the validator tests.
SectionMark(s)  == <<"section", s>>         \* f'{section}:' in content
TypeMark(t)     == <<"type", t>>            \* resource_type in content
TagMark(k)      == <<"tag", k>>             \* f'Key: {tag_key}' in content
AlarmKVMark(a)  == <<"alarmkv", a>>         \* f'AlarmType\n          Value: {a}'
AlarmInMark(a)  == <<"alarminline", a>>     \* f'AlarmType: {a}'
WordMark(w)     == <<"word", w>>            \* plain substring w
\* case-insensitive pattern match not already given by a captured sns name
PatternMark(p)  == <<"pattern", p>>

SecurityWords ==
    {"KmsMasterKeyId", "DeletionPolicy: Retain", "aws:SecureTransport", "aws:SourceAccount"}

OtherWords ==
    {"DashboardViewerPolicy", "MonitoringRegion", "DashboardURL", "DashboardName"}

Marks ==
    {SectionMark(s) : s \in Range(required_sections)}
    \cup {TypeMark(t) : t \in Range(required_resources) \cup Range(optional_resources)}
    \cup {TagMark(k) : k \in Range(tag_keys)}
    \cup {AlarmKVMark(a) : a \in Range(alarm_types)}
    \cup {AlarmInMark(a) : a \in Range(alarm_types)}
    \cup {WordMark(w) : w \in SecurityWords \cup OtherWords}
    \cup {PatternMark(p) : p \in {"Action: *", "sns:Unsubscribe", "sns:Receive"}}

\* names that may follow "sns:" in an input template
SnsNames == {"Publish", "Subscribe", "Unsubscribe", "Receive", "Foo"}

-----------------------------------------------------------------------------
(* Input templates *)

\* The reference template: every section, resource type, tag, alarm category
\* and security marker present, one valid SNS action, size at the limit.
\* top holds the required sections that are top-level keys of the document;
\* the marker of a section is in marks whenever the text f'{section}:' occurs
\* anywhere, at the top level or not.
GoodTemplate ==
    [file   |-> "ok",
     top    |-> Range(required_sections),
     marks  |-> {SectionMark(s) : s \in Range(required_sections)}
                \cup {TypeMark(t) : t \in Range(required_resources) \cup Range(optional_resources)}
                \cup {TagMark(k) : k \in Range(tag_keys)}
                \cup {AlarmKVMark(a) : a \in Range(alarm_types)}
                \cup {WordMark(w) : w \in SecurityWords \cup OtherWords},
     sns    |-> {"Publish"},
     lines  |-> 1,
     size   |-> SizeLimit]

Toggle(S, x) == IF x \in S THEN S \ {x} ELSE S \cup {x}

Edits ==
    {<<"mark", m>> : m \in Marks}
    \cup {<<"sns", a>> : a \in SnsNames}
    \cup {<<"lines", n>> : n \in 0..MaxResourceLines}
    \cup {<<"size", n>> : n \in {SizeLimit - 1, SizeLimit + 1}}
    \cup {<<"file", f>> : f \in {"missing", "unreadable"}}
    \cup {<<"nest", x>> : x \in Range(required_sections)}

ApplyEdit(t, e) ==
    CASE e[1] = "mark"  ->
            \* a section disappears from the text, or appears at the top level
            [t EXCEPT !.marks = Toggle(@, e[2]),
                      !.top = IF e[2][1] # "section" THEN @
                              ELSE IF e[2] \in t.marks THEN @ \ {e[2][2]}
                              ELSE @ \cup {e[2][2]}]
      [] e[1] = "sns"   -> [t EXCEPT !.sns = Toggle(@, e[2])]
      [] e[1] = "lines" -> [t EXCEPT !.lines = e[2]]
      [] e[1] = "size"  -> [t EXCEPT !.size = e[2]]
      [] e[1] = "file"  -> [t EXCEPT !.file = e[2]]
      \* the section name is left only inside a longer key or other text
      [] e[1] = "nest"  -> [t EXCEPT !.top = @ \ {e[2]},
                                     !.marks = @ \cup {SectionMark(e[2])}]

RECURSIVE Edited(_)
Edited(k) ==
    IF k = 0 THEN {GoodTemplate}
    ELSE LET P == Edited(k - 1)
         IN  P \cup {ApplyEdit(t, e) : t \in P, e \in Edits}

\* Templates whose only gaps are advisory: whole groups of tags, alarm
\* categories, security markers removed and/or the size above the limit.
AdvisoryGroups ==
    {{TagMark(k) : k \in Range(tag_keys)},
     {AlarmKVMark(a) : a \in Range(alarm_types)},
     {WordMark(w) : w \in SecurityWords}}

AdvisoryOnly ==
    {[GoodTemplate EXCEPT !.marks = @ \ UNION gs, !.size = n] :
        gs \in SUBSET AdvisoryGroups, n \in {SizeLimit, SizeLimit + 1}}

Templates == Edited(MaxEdits) \cup AdvisoryOnly

-----------------------------------------------------------------------------
(* Messages and buckets *)

Msg(text, names, n) == [text |-> text, names |-> names, n |-> n]

Has(c, m) == m \in c.marks

\* the elements x of s whose marker <<kind, x>> is present / absent, mapped to messages
Found(s, c, kind, text) ==
    LET hit == SelectSeq(s, LAMBDA x : Has(c, <<kind, x>>))
    IN  [i \in 1..Len(hit) |-> Msg(text, <<hit[i]>>, 0)]

Absent(s, c, kind, text) ==
    LET miss == SelectSeq(s, LAMBDA x : ~Has(c, <<kind, x>>))
    IN  [i \in 1..Len(miss) |-> Msg(text, <<miss[i]>>, 0)]

\* all orders in which a set can be iterated or printed
Orders(S) ==
    {q \in [1..Cardinality(S) -> S] : \A x \in S : \E i \in DOMAIN q : q[i] = x}

-----------------------------------------------------------------------------
(* TemplateValidator: each method maps the buckets b = [errors, warnings,  *)
(* info] and the file content c to the buckets after the call              *)

EmptyBuckets == [errors |-> <<>>, warnings |-> <<>>, info |-> <<>>]

\* mutant of LoadSections: a missing section is filed as a warning
LoadSections_AsWarning(b, c) ==
    [b EXCEPT
        !.warnings = @ \o Absent(required_sections, c, "section", "Missing required section"),
        !.info     = @ \o Found(required_sections, c, "section", "Found section")]

\* try-body of load_template: one error or one info entry per section, in order
LoadSections(b, c) ==
    [b EXCEPT
        !.errors = @ \o Absent(required_sections, c, "section", "Missing required section"),
        !.info   = @ \o Found(required_sections, c, "section", "Found section")]

\* load_template: the buckets after the call
LoadTemplate(b, c) ==
    IF c.file = "ok"
    THEN LoadSections(b, c)
    ELSE [b EXCEPT !.errors = Append(@, Msg("Failed to load template", <<>>, 0))]

\* load_template: the value returned (yaml_structure_valid, or False on exception)
LoadTemplateResult(c) ==
    /\ c.file = "ok"
    /\ \A i \in DOMAIN required_sections : Has(c, SectionMark(required_sections[i]))

\* sns_actions - {valid names}
InvalidActions(c) == c.sns \ valid_sns_actions

\* the set validate_sns_policies iterates (invalid actions) or prints (all actions)
SnsIterated(c) == IF InvalidActions(c) # {} THEN InvalidActions(c) ELSE c.sns

\* re.search(pattern, content, re.IGNORECASE) for the three problematic patterns
WildcardAction(c) == Has(c, PatternMark("Action: *"))
DenylistedUse(c, name) == name \in c.sns \/ Has(c, PatternMark("sns:" \o name))

\* mutant of ProblematicPatterns: only the wildcard pattern is searched
ProblematicPatterns_WildcardOnly(c) ==
    IF WildcardAction(c)
    THEN <<Msg("Wildcard action (*) not allowed in SNS policies", <<>>, 0)>> ELSE <<>>
ProblematicPatterns(c) ==
    (IF WildcardAction(c)
        THEN <<Msg("Wildcard action (*) not allowed in SNS policies", <<>>, 0)>> ELSE <<>>)
    \o (IF DenylistedUse(c, "Unsubscribe")
        THEN <<Msg("sns:Unsubscribe is not a valid SNS topic policy action", <<>>, 0)>> ELSE <<>>)
    \o (IF DenylistedUse(c, "Receive")
        THEN <<Msg("sns:Receive is not a valid SNS topic policy action", <<>>, 0)>> ELSE <<>>)

WordInfo(c, w, text) ==
    IF Has(c, WordMark(w)) THEN <<Msg(text, <<>>, 0)>> ELSE <<>>

\* validate_sns_policies; order is the order in which this process iterates
\* (or prints) the set of action names
ValidateSnsPolicies(b, c, order) ==
    [b EXCEPT
        !.errors = @ \o (IF InvalidActions(c) # {}
                            THEN [i \in 1..Len(order) |->
                                    Msg("Invalid SNS action found", <<order[i]>>, 0)]
                            ELSE <<>>)
                     \o ProblematicPatterns(c),
        !.info   = @ \o (IF InvalidActions(c) # {}
                            THEN <<>>
                            ELSE <<Msg("All SNS actions are valid", order, 0)>>)
                     \o WordInfo(c, "aws:SecureTransport", "Using aws:SecureTransport condition")
                     \o WordInfo(c, "aws:SourceAccount", "Using aws:SourceAccount condition")]

\* validate_resource_structure
ValidateResourceStructure(b, c) ==
    [b EXCEPT
        !.errors = @ \o (IF c.lines > 0 THEN <<>>
                            ELSE <<Msg("No resources found in template", <<>>, 0)>>)
                     \o Absent(required_resources, c, "type", "Missing required"),
        !.info   = @ \o (IF c.lines > 0 THEN <<Msg("Found resources", <<>>, c.lines)>>
                            ELSE <<>>)
                     \o Found(required_resources, c, "type", "Found")
                     \o [i \in 1..Len(optional_resources) |->
                            IF Has(c, TypeMark(optional_resources[i]))
                            THEN Msg("Found", <<optional_resources[i]>>, 0)
                            ELSE Msg("not found", <<optional_resources[i]>>, 0)]]

\* mutant of ValidateSecurityBestPractices: nothing is added once errors exist
ValidateSecurityBestPractices_IfClean(b, c) ==
    IF b.errors # <<>> THEN b
    ELSE [b EXCEPT !.info = Append(@, Msg("Found least-privilege IAM policy", <<>>, 0))]

\* validate_security_best_practices
ValidateSecurityBestPractices(b, c) ==
    [b EXCEPT
        !.info = @ \o <<IF Has(c, WordMark("DashboardViewerPolicy"))
                            THEN Msg("Found least-privilege IAM policy", <<>>, 0)
                            ELSE Msg("No IAM resources", <<>>, 0)>>
                   \o WordInfo(c, "KmsMasterKeyId", "SNS topic encryption configured")
                   \o WordInfo(c, "DeletionPolicy: Retain", "Deletion protection configured")
                   \o WordInfo(c, "aws:SecureTransport", "Secure transport enforcement found")
                   \o WordInfo(c, "aws:SourceAccount", "Account-based access restrictions found")]

AlarmMark(c, a) == Has(c, AlarmKVMark(a)) \/ Has(c, AlarmInMark(a))

\* validate_production_readiness
ValidateProductionReadiness(b, c) ==
    LET alarmHit  == SelectSeq(alarm_types, LAMBDA a : AlarmMark(c, a))
        alarmMiss == SelectSeq(alarm_types, LAMBDA a : ~AlarmMark(c, a))
    IN [b EXCEPT
        !.warnings = @ \o Absent(tag_keys, c, "tag", "Missing tag")
                       \o [i \in 1..Len(alarmMiss) |-> Msg("Missing alarm", <<alarmMiss[i]>>, 0)],
        !.info     = @ \o Found(tag_keys, c, "tag", "Found tag")
                       \o [i \in 1..Len(alarmHit) |-> Msg("Found alarm", <<alarmHit[i]>>, 0)]
                       \o (IF Has(c, SectionMark("Parameters")) /\ Has(c, WordMark("MonitoringRegion"))
                              THEN <<Msg("Template is properly parameterized", <<>>, 0)>> ELSE <<>>)
                       \o (IF Has(c, WordMark("DashboardURL")) /\ Has(c, WordMark("DashboardName"))
                              THEN <<Msg("Essential outputs provided", <<>>, 0)>> ELSE <<>>)]

\* mutant of ValidateTemplateSize: an oversized template is filed as an error
ValidateTemplateSize_AsError(b, c) ==
    IF c.size > SizeLimit
    THEN [b EXCEPT !.errors = @ \o <<Msg("Template size exceeds limit", <<>>, c.size),
                                     Msg("This is normal - deploy directly", <<>>, 0)>>]
    ELSE [b EXCEPT !.info = Append(@, Msg("Template size within limits", <<>>, c.size))]

\* validate_template_size
ValidateTemplateSize(b, c) ==
    IF c.size > SizeLimit
    THEN [b EXCEPT !.warnings = @ \o <<Msg("Template size exceeds limit", <<>>, c.size),
                                       Msg("This is normal - deploy directly", <<>>, 0)>>]
    ELSE [b EXCEPT !.info = Append(@, Msg("Template size within limits", <<>>, c.size))]

\* mutant of OverallResult: warnings fail the run too
OverallResult_Strict(b) ==
    IF b.errors # <<>> THEN "False"
    ELSE IF b.warnings # <<>> THEN "False"
    ELSE "True"

\* run_validation, "Overall result": the value returned
OverallResult(b) ==
    IF b.errors # <<>> THEN "False"
    ELSE IF b.warnings # <<>> THEN "True"
    ELSE "True"

\* main: sys.exit(0 if success else 1)
ExitStatus(s) == IF s = "True" THEN 0 ELSE 1

-----------------------------------------------------------------------------
(* The validator process: main and run_validation *)

Buckets == [errors |-> errors, warnings |-> warnings, info |-> info]

SetBuckets(b) ==
    /\ errors' = b.errors
    /\ warnings' = b.warnings
    /\ info' = b.info

NoOutcome == [errors |-> <<>>, warnings |-> <<>>, info |-> <<>>, exit |-> -1]

VInit ==
    /\ tpl \in Templates
    /\ run = 1
    /\ prev = NoOutcome
    /\ vpc = "main"
    /\ errors = <<>>
    /\ warnings = <<>>
    /\ info = <<>>
    /\ success = "none"
    /\ vexit = -1

VIdle ==
    /\ tpl = GoodTemplate
    /\ run = 1
    /\ prev = NoOutcome
    /\ vpc = "idle"
    /\ errors = <<>>
    /\ warnings = <<>>
    /\ info = <<>>
    /\ success = "none"
    /\ vexit = -1

\* main: the file-exists check, then TemplateValidator(template_file)
Main ==
    /\ vpc = "main"
    /\ IF tpl.file = "missing"
       THEN /\ vexit' = 1
            /\ vpc' = "exited"
       ELSE /\ vexit' = vexit
            /\ vpc' = "load"
    /\ SetBuckets(EmptyBuckets)
    /\ UNCHANGED <<tpl, run, prev, success, notV>>

\* run_validation: if not self.load_template(): return False
RunLoadTemplate ==
    /\ vpc = "load"
    /\ SetBuckets(LoadTemplate(Buckets, tpl))
    /\ IF LoadTemplateResult(tpl)
       THEN /\ vpc' = "sns"
            /\ success' = success
       ELSE /\ vpc' = "exit"
            /\ success' = "False"
    /\ UNCHANGED <<tpl, run, prev, vexit, notV>>

RunValidateSnsPolicies ==
    /\ vpc = "sns"
    /\ \E order \in Orders(SnsIterated(tpl)) :
            SetBuckets(ValidateSnsPolicies(Buckets, tpl, order))
    /\ vpc' = "resources"
    /\ UNCHANGED <<tpl, run, prev, success, vexit, notV>>

RunValidateResourceStructure ==
    /\ vpc = "resources"
    /\ SetBuckets(ValidateResourceStructure(Buckets, tpl))
    /\ vpc' = "security"
    /\ UNCHANGED <<tpl, run, prev, success, vexit, notV>>

RunValidateSecurityBestPractices ==
    /\ vpc = "security"
    /\ SetBuckets(ValidateSecurityBestPractices(Buckets, tpl))
    /\ vpc' = "production"
    /\ UNCHANGED <<tpl, run, prev, success, vexit, notV>>

RunValidateProductionReadiness ==
    /\ vpc = "production"
    /\ SetBuckets(ValidateProductionReadiness(Buckets, tpl))
    /\ vpc' = "size"
    /\ UNCHANGED <<tpl, run, prev, success, vexit, notV>>

RunValidateTemplateSize ==
    /\ vpc = "size"
    /\ SetBuckets(ValidateTemplateSize(Buckets, tpl))
    /\ vpc' = "results"
    /\ UNCHANGED <<tpl, run, prev, success, vexit, notV>>

\* run_validation: print the three buckets, then the overall result
PrintResults ==
    /\ vpc = "results"
    /\ success' = OverallResult(Buckets)
    /\ vpc' = "exit"
    /\ UNCHANGED <<tpl, run, prev, errors, warnings, info, vexit, notV>>

\* main: sys.exit(0 if success else 1)
Exit ==
    /\ vpc = "exit"
    /\ vexit' = ExitStatus(success)
    /\ vpc' = "exited"
    /\ UNCHANGED <<tpl, run, prev, errors, warnings, info, success, notV>>

\* a second, fresh process is started on the unchanged template
Rerun ==
    /\ vpc = "exited"
    /\ run = 1
    /\ prev' = [errors |-> errors, warnings |-> warnings, info |-> info, exit |-> vexit]
    /\ run' = 2
    /\ vpc' = "main"
    /\ SetBuckets(EmptyBuckets)
    /\ success' = "none"
    /\ vexit' = -1
    /\ UNCHANGED <<tpl, notV>>

VNext ==
    \/ Main
    \/ RunLoadTemplate
    \/ RunValidateSnsPolicies
    \/ RunValidateResourceStructure
    \/ RunValidateSecurityBestPractices
    \/ RunValidateProductionReadiness
    \/ RunValidateTemplateSize
    \/ PrintResults
    \/ Exit
    \/ Rerun

-----------------------------------------------------------------------------
(* The live probe: NovaProDashboardTester and main of                      *)
(* test_dashboard_metrics.py.  The cloud services are black boxes: each    *)
(* call either returns or raises, chosen nondeterministically.             *)

NoCalls == [get_dashboard |-> "none", get_metric_data |-> "none"]

NoWidgetVerification ==
    [dashboard_accessible |-> FALSE, metrics_available |-> FALSE, error |-> FALSE]

PInit ==
    /\ args \in [invocations : 0..MaxInvocations, wait_minutes : 0..MaxWaitMinutes]
    /\ ppc = "init"
    /\ stack = "pending"
    /\ test_results = <<>>
    /\ minute = 0
    /\ calls = NoCalls
    /\ widget_verification = NoWidgetVerification
    /\ cost_verification = [cost_calculation_available |-> FALSE]
    /\ report = "none"
    /\ report_file = FALSE
    /\ phases = <<>>
    /\ pexit = -1

PIdle ==
    /\ args = [invocations |-> 0, wait_minutes |-> 0]
    /\ ppc = "idle"
    /\ stack = "pending"
    /\ test_results = <<>>
    /\ minute = 0
    /\ calls = NoCalls
    /\ widget_verification = NoWidgetVerification
    /\ cost_verification = [cost_calculation_available |-> FALSE]
    /\ report = "none"
    /\ report_file = FALSE
    /\ phases = <<>>
    /\ pexit = -1

\* sum(1 for r in test_results if r.get('success', False))
SuccessfulInvocations(results) ==
    Cardinality({k \in DOMAIN results : results[k].success})

\* successful_invocations >= len(test_results) * 0.8; the float product and
\* the exact one order every pair of counts alike, so 5*s >= 4*n is the test
InvocationSuccess(results) ==
    5 * SuccessfulInvocations(results) >= 4 * Len(results)

\* widget_verification.get('dashboard_accessible', False)
DashboardSuccess(wv) == wv.dashboard_accessible

\* main, "except Exception as e": log the error, sys.exit(1)
MainExcept ==
    /\ pexit' = 1
    /\ ppc' = "exited"

\* mutant of GetStackInfoExcept: the error is logged and swallowed
GetStackInfoExcept_Swallow ==
    /\ stack' = "raised"
    /\ ppc' = "Invoking"
    /\ phases' = Append(phases, "Invoking")
    /\ pexit' = pexit

\* the except clause of _get_stack_info: log the error and re-raise
GetStackInfoExcept ==
    /\ stack' = "raised"
    /\ MainExcept
    /\ phases' = phases

\* NovaProDashboardTester.__init__ with _get_stack_info
Construct ==
    /\ ppc = "init"
    /\ \/ /\ stack' = "ok"
          /\ ppc' = "Invoking"
          /\ phases' = Append(phases, "Invoking")
          /\ pexit' = pexit
       \/ GetStackInfoExcept
    /\ UNCHANGED <<args, test_results, minute, calls, widget_verification,
                   cost_verification, report, report_file, notP>>

\* the record appended by the try body (ok) or by the except clause (~ok) of
\* one iteration of generate_test_invocations
InvocationRecord(i, ok) == [invocation |-> i + 1, success |-> ok]

\* mutant of MoreInvocations: a failed invocation ends the loop
MoreInvocations_AbortOnFailure(results, n) ==
    /\ Len(results) < n
    /\ (IF results = <<>> THEN TRUE ELSE results[Len(results)].success)

\* "for i in range(num_invocations)": every iteration appends one record, so
\* i = len(test_results) and the loop goes on while this holds
MoreInvocations(results, n) == Len(results) < n

\* one iteration of the loop of generate_test_invocations
Invoke ==
    /\ ppc = "Invoking"
    /\ MoreInvocations(test_results, args.invocations)
    /\ \E ok \in BOOLEAN :
          test_results' = Append(test_results, InvocationRecord(Len(test_results), ok))
    /\ UNCHANGED <<args, ppc, stack, minute, calls, widget_verification,
                   cost_verification, report, report_file, phases, pexit, notP>>

\* generate_test_invocations returns; wait_for_metrics_propagation is entered
FinishInvocations ==
    /\ ppc = "Invoking"
    /\ ~MoreInvocations(test_results, args.invocations)
    /\ ppc' = "Waiting"
    /\ phases' = Append(phases, "Waiting")
    /\ UNCHANGED <<args, stack, test_results, minute, calls, widget_verification,
                   cost_verification, report, report_file, pexit, notP>>

\* mutant of WaitMore: the wait ends after the first minute
WaitMore_Early(m, wait_minutes) == m < wait_minutes /\ m < 1

\* "for minute in range(wait_minutes)": the loop goes on while this holds
WaitMore(m, wait_minutes) == m < wait_minutes

\* time.sleep(60)
Sleep ==
    /\ ppc = "Waiting"
    /\ WaitMore(minute, args.wait_minutes)
    /\ minute' = minute + 1
    /\ UNCHANGED <<args, ppc, stack, test_results, calls, widget_verification,
                   cost_verification, report, report_file, phases, pexit, notP>>

\* wait_for_metrics_propagation returns; verify_dashboard_widgets is entered
FinishWait ==
    /\ ppc = "Waiting"
    /\ ~WaitMore(minute, args.wait_minutes)
    /\ ppc' = "Querying"
    /\ phases' = Append(phases, "Querying")
    /\ UNCHANGED <<args, stack, test_results, minute, calls, widget_verification,
                   cost_verification, report, report_file, pexit, notP>>

\* mutant of VerifyWidgetsExcept: the exception is re-raised to main
VerifyWidgetsExcept_Reraise(dash) ==
    /\ calls' = [get_dashboard |-> dash,
                 get_metric_data |-> IF dash = "ok" THEN "raised" ELSE "none"]
    /\ widget_verification' = widget_verification
    /\ MainExcept
    /\ phases' = phases

\* verify_dashboard_widgets, the except clause
VerifyWidgetsExcept(dash) ==
    /\ calls' = [get_dashboard |-> dash,
                 get_metric_data |-> IF dash = "ok" THEN "raised" ELSE "none"]
    /\ widget_verification' =
            [dashboard_accessible |-> FALSE, metrics_available |-> FALSE, error |-> TRUE]
    /\ ppc' = "Verifying"
    /\ phases' = Append(phases, "Verifying")
    /\ pexit' = pexit

\* verify_dashboard_widgets: get_dashboard (with json.loads of its body) and
\* get_metric_data each return or raise
VerifyDashboardWidgets ==
    /\ ppc = "Querying"
    /\ \/ \E has_data \in BOOLEAN :
            /\ calls' = [get_dashboard |-> "ok", get_metric_data |-> "ok"]
            /\ widget_verification' =
                    [dashboard_accessible |-> TRUE, metrics_available |-> has_data,
                     error |-> FALSE]
            /\ ppc' = "Verifying"
            /\ phases' = Append(phases, "Verifying")
            /\ pexit' = pexit
       \/ \E dash \in {"ok", "raised"} : VerifyWidgetsExcept(dash)
    /\ UNCHANGED <<args, stack, test_results, minute, cost_verification,
                   report, report_file, notP>>

\* verify_cost_calculations
VerifyCostCalculations ==
    /\ ppc = "Verifying"
    /\ cost_verification' =
            [cost_calculation_available |-> SuccessfulInvocations(test_results) > 0]
    /\ ppc' = "Reporting"
    /\ phases' = Append(phases, "Reporting")
    /\ UNCHANGED <<args, stack, test_results, minute, calls, widget_verification,
                   report, report_file, pexit, notP>>

\* generate_test_report, "Overall result"
OverallStatus(results, wv) ==
    IF InvocationSuccess(results) /\ DashboardSuccess(wv) THEN "PASS"
    ELSE IF InvocationSuccess(results) THEN "PARTIAL"
    ELSE "FAIL"

\* generate_test_report raises ZeroDivisionError on the "Success Rate" line,
\* successful_invocations/total_invocations*100, when there is no record
SuccessRateRaises(results) == Len(results) = 0

\* generate_test_report, print(report) and the write of the report file
GenerateTestReport ==
    /\ ppc = "Reporting"
    /\ IF SuccessRateRaises(test_results)
       THEN /\ MainExcept
            /\ UNCHANGED <<report, report_file>>
       ELSE /\ report' = OverallStatus(test_results, widget_verification)
            /\ report_file' = TRUE
            /\ ppc' = "Exiting"
            /\ pexit' = pexit
    /\ UNCHANGED <<args, stack, test_results, minute, calls, widget_verification,
                   cost_verification, phases, notP>>

\* mutant of ProbeExitStatus: the dashboard outcome is not looked at
ProbeExitStatus_InvocationsOnly(results, wv) ==
    IF InvocationSuccess(results) THEN 0 ELSE 1

\* main, "Exit with appropriate code"
ProbeExitStatus(results, wv) ==
    IF InvocationSuccess(results) /\ DashboardSuccess(wv) THEN 0 ELSE 1

ProbeExit ==
    /\ ppc = "Exiting"
    /\ pexit' = ProbeExitStatus(test_results, widget_verification)
    /\ ppc' = "exited"
    /\ UNCHANGED <<args, stack, test_results, minute, calls, widget_verification,
                   cost_verification, report, report_file, phases, notP>>

PNext ==
    \/ Construct
    \/ Invoke
    \/ FinishInvocations
    \/ Sleep
    \/ FinishWait
    \/ VerifyDashboardWidgets
    \/ VerifyCostCalculations
    \/ GenerateTestReport
    \/ ProbeExit

-----------------------------------------------------------------------------
(* The widget verifier: verify_dashboard_widgets.py *)

\* the six categories of widget_categories, in the order of the if/elif chain,
\* each with the keywords its branch looks for
Categories ==
    << [name |-> "Usage Overview",      keywords |-> {"invocation", "tpm", "requests"}],
       [name |-> "Cost Tracking",       keywords |-> {"cost", "cache"}],
       [name |-> "Performance Metrics", keywords |-> {"latency", "performance"}],
       [name |-> "Error Monitoring",    keywords |-> {"error", "success", "failed"}],
       [name |-> "Invocation Patterns", keywords |-> {"token", "concurrent"}],
       [name |-> "Guardrails",          keywords |-> {"guardrail", "intervention"}] >>

CategoryNames == {Categories[i].name : i \in DOMAIN Categories}

Keywords == UNION {Categories[i].keywords : i \in DOMAIN Categories}

\* a title is the set of keywords spelled in it and the case it is written in
\* (upper: in capitals); a widget with no title reads as 'Untitled', which spells
\* no keyword
Untitled == [words |-> {}, upper |-> FALSE]

Titles(k) ==
    {Untitled} \cup
    {[words |-> w, upper |-> u] : w \in {x \in SUBSET Keywords : Cardinality(x) \in 1..k},
                                  u \in BOOLEAN}

\* keyword in text: a case-sensitive substring test against a lower-case literal
Contains(text, keyword) == ~text.upper /\ keyword \in text.words

\* mutant of Lower: the title is matched as written
Lower_Identity(t) == t
\* title.lower()
Lower(t) == [t EXCEPT !.upper = FALSE]

\* any(keyword in title.lower() for keyword in [...]) of branch i
Matches(t, i) == \E keyword \in Categories[i].keywords : Contains(Lower(t), keyword)

\* the branch of the if/elif chain that is taken, 0 when none is
Branch(t) ==
    IF \E i \in DOMAIN Categories : Matches(t, i)
    THEN CHOOSE i \in DOMAIN Categories :
            Matches(t, i) /\ \A j \in 1..(i - 1) : ~Matches(t, j)
    ELSE 0

\* mutant of Categorize: independent ifs, every matching category is counted
Categorize_EveryMatch(c, t) ==
    [n \in DOMAIN c |->
        c[n] + (IF \E i \in DOMAIN Categories : Categories[i].name = n /\ Matches(t, i)
                THEN 1 ELSE 0)]
\* one iteration of the loop over widgets
Categorize(c, t) ==
    IF Branch(t) = 0 THEN c
    ELSE [c EXCEPT ![Categories[Branch(t)].name] = @ + 1]

NoCategories == [n \in CategoryNames |-> 0]

\* the series the verifier queries, and the ones it requires
series_ids == {"invocations", "input_tokens", "output_tokens", "latency_avg", "latency_p99"}
required_metrics == {"invocations", "input_tokens", "output_tokens"}

\* values of one data point of a series
PointValues(id) ==
    IF id = "invocations" THEN {0, 1, 2}
    ELSE IF id \in required_metrics THEN {0, 1}
    ELSE {1}

\* result['Values'] of one series
Values(id) ==
    UNION {[1..n -> PointValues(id)] :
             n \in 0..(IF id \in required_metrics THEN MaxPoints ELSE 1)}

RECURSIVE Sum(_)
Sum(s) == IF s = <<>> THEN 0 ELSE s[1] + Sum(Tail(s))

\* a response in which every series has enough data
GoodResponse ==
    [id \in series_ids |-> IF id = "invocations" THEN <<2, 1>> ELSE <<1>>]

Responses(focus) ==
    IF focus = "metrics"
    THEN {[id \in series_ids |->
              CASE id = "invocations" -> inv
                [] id = "input_tokens" -> inp
                [] id = "output_tokens" -> out
                [] id = "latency_avg" -> avg
                [] id = "latency_p99" -> p99] :
            inv \in Values("invocations"), inp \in Values("input_tokens"),
            out \in Values("output_tokens"), avg \in Values("latency_avg"),
            p99 \in Values("latency_p99")}
    ELSE {GoodResponse}

\* the entry of metrics_data built from one result; a series without data
\* points gets no entry
MetricsData(response) ==
    [id \in series_ids |->
        IF response[id] # <<>>
        THEN [present |-> TRUE,
              latest |-> response[id][Len(response[id])],
              total |-> Sum(response[id])]
        ELSE [present |-> FALSE, latest |-> 0, total |-> 0]]

NoMetricsData == MetricsData([id \in series_ids |-> <<>>])

missing_metrics(md) == {m \in required_metrics : ~md[m].present}

\* mutant of OverallVerification: the token totals are not looked at
OverallVerification_AnyTokens(md) ==
    md["invocations"].total >= 3
\* the overall verification result
OverallVerification(md) ==
    /\ md["invocations"].total >= 3
    /\ md["input_tokens"].total > 0
    /\ md["output_tokens"].total > 0

\* period_minutes = 5
period_minutes == 5

Fraction(num, den) == [num |-> num, den |-> den]

NoTpm == [service |-> Fraction(0, 0), customer |-> Fraction(0, 0)]

\* service_tpm and customer_tpm, from total_input_tokens and total_output_tokens
TpmCalculation(md) ==
    [service  |-> Fraction(md["input_tokens"].total + md["output_tokens"].total * 5,
                           period_minutes),
     customer |-> Fraction(md["input_tokens"].total + md["output_tokens"].total,
                           period_minutes)]

WInit ==
    /\ wfocus \in {"titles", "metrics"}
    /\ wpc = "dashboard"
    /\ widgets_n = 0
    /\ widx = 0
    /\ title = Untitled
    /\ metrics_data = NoMetricsData
    /\ tpm = NoTpm
    /\ widget_categories = NoCategories
    /\ unmatched = 0
    /\ wret = "none"
    /\ wexit = -1

WIdle ==
    /\ wfocus = "titles"
    /\ wpc = "idle"
    /\ widgets_n = 0
    /\ widx = 0
    /\ title = Untitled
    /\ metrics_data = NoMetricsData
    /\ tpm = NoTpm
    /\ widget_categories = NoCategories
    /\ unmatched = 0
    /\ wret = "none"
    /\ wexit = -1

\* get_dashboard and the parse of its body; any exception returns False
GetDashboard ==
    /\ wpc = "dashboard"
    /\ \/ /\ wret' = "False"
          /\ wpc' = "return"
          /\ UNCHANGED widgets_n
       \/ /\ \E n \in 0..MaxWidgets : widgets_n' = n
          /\ wpc' = "metrics"
          /\ UNCHANGED wret
    /\ UNCHANGED <<wfocus, widx, title, metrics_data, tpm, widget_categories, unmatched,
                   wexit, notW>>

\* get_metric_data and the construction of metrics_data; any exception
\* returns False
GetMetricData ==
    /\ wpc = "metrics"
    /\ \/ /\ wret' = "False"
          /\ wpc' = "return"
          /\ UNCHANGED metrics_data
       \/ /\ \E response \in Responses(wfocus) : metrics_data' = MetricsData(response)
          /\ wpc' = "required"
          /\ UNCHANGED wret
    /\ UNCHANGED <<wfocus, widgets_n, widx, title, tpm, widget_categories, unmatched,
                   wexit, notW>>

\* the required series must all be in metrics_data; then the metrics summary
\* and the TPM calculation
CheckRequiredMetrics ==
    /\ wpc = "required"
    /\ IF missing_metrics(metrics_data) # {}
       THEN wret' = "False" /\ wpc' = "return" /\ tpm' = tpm
       ELSE wret' = wret /\ wpc' = "widgets" /\ tpm' = TpmCalculation(metrics_data)
    /\ UNCHANGED <<wfocus, widgets_n, widx, title, metrics_data, widget_categories,
                   unmatched, wexit, notW>>

\* the body of the loop over widgets, on the next widget of the dashboard body:
\* its title is read and its category counted
CategorizeWidget ==
    /\ wpc = "widgets"
    /\ widx < widgets_n
    /\ \E t \in Titles(IF wfocus = "titles" THEN MaxTitleWords ELSE 0) :
          /\ title' = t
          /\ widget_categories' = Categorize(widget_categories, t)
          /\ unmatched' = unmatched + (IF t.words \cap Keywords = {} THEN 1 ELSE 0)
    /\ widx' = widx + 1
    /\ wpc' = "print"
    /\ UNCHANGED <<wfocus, widgets_n, metrics_data, tpm, wret, wexit, notW>>

\* the widget is printed and the loop moves on
PrintWidget ==
    /\ wpc = "print"
    /\ title' = Untitled
    /\ wpc' = "widgets"
    /\ UNCHANGED <<wfocus, widgets_n, widx, metrics_data, tpm, widget_categories, unmatched,
                   wret, wexit, notW>>

\* the overall verification result, after the loop
ReturnOverall ==
    /\ wpc = "widgets"
    /\ widx = widgets_n
    /\ wret' = (IF OverallVerification(metrics_data) THEN "True" ELSE "False")
    /\ wpc' = "return"
    /\ UNCHANGED <<wfocus, widgets_n, widx, title, metrics_data, tpm, widget_categories,
                   unmatched, wexit, notW>>

\* sys.exit(0 if success else 1)
VerifierExit ==
    /\ wpc = "return"
    /\ wexit' = (IF wret = "True" THEN 0 ELSE 1)
    /\ wpc' = "exited"
    /\ UNCHANGED <<wfocus, widgets_n, widx, title, metrics_data, tpm, widget_categories,
                   unmatched, wret, notW>>

WNext ==
    \/ GetDashboard
    \/ GetMetricData
    \/ CheckRequiredMetrics
    \/ CategorizeWidget
    \/ PrintWidget
    \/ ReturnOverall
    \/ VerifierExit

-----------------------------------------------------------------------------
(* The template test suite: test_template_properties.py *)

\* the rules modelled, by the name of their test function
Rules ==
    {"test_optional_parameters_have_defaults",
     "test_region_consistency_across_metrics",
     "test_model_dimension_inclusion",
     "test_alarm_sns_integration",
     "test_update_safe_resource_configuration",
     "test_resource_protection_policies",
     "test_least_privilege_iam_permissions",
     "test_scoped_cloudwatch_permissions",
     "test_user_identity_extraction_consistency",
     "test_application_identity_extraction_consistency"}

\* the rules that read the dashboard body
DashboardRules ==
    {"test_region_consistency_across_metrics", "test_model_dimension_inclusion"}

NoWidget == [type |-> "none", region |-> "none", metrics |-> <<>>]

\* Parameters of the template. A parameter is left out of the document or is
\* declared with one of these Default lines:
\*   "no default": no Default line    "bare":   Default:
\*   "null":       Default: null      "empty":  Default: ""
\*   "number":     Default: 5
ParameterNames == {"MonitoringRegion", "AlarmEmail", "ErrorRateThreshold"}

DefaultLines == {"no default", "bare", "null", "empty", "number"}

ParameterDocs == [ParameterNames -> DefaultLines \cup {"undeclared"}]

\* the Default value yaml.load gives for a Default line
YamlValue(line) ==
    CASE line = "bare"   -> "None"
      [] line = "null"   -> "None"
      [] line = "empty"  -> "''"
      [] line = "number" -> "5"
      [] OTHER           -> "None"

\* the Default value the line-by-line fallback gives for a Default line
FallbackValue(line) ==
    CASE line = "bare"   -> "''"
      [] line = "null"   -> "'null'"
      [] line = "empty"  -> "''"
      [] line = "number" -> "5"
      [] OTHER           -> "None"

\* template['Parameters'] as load_template returns it; parsed says whether the
\* try block (validate_template and yaml.load) went through
Parameters(doc, parsed) ==
    [n \in {x \in ParameterNames : doc[x] # "undeclared"} |->
        [has_default |-> doc[n] # "no default",
         Default     |-> IF parsed THEN YamlValue(doc[n]) ELSE FallbackValue(doc[n])]]

required_params == {"MonitoringRegion"}

\* mutant of OptionalParametersHaveDefaults: the value of Default is not looked at
OptionalParametersHaveDefaults_KeyOnly(parameters) ==
    \A n \in DOMAIN parameters \ required_params : parameters[n].has_default
\* both assertions of test_optional_parameters_have_defaults hold for every parameter
OptionalParametersHaveDefaults(parameters) ==
    \A n \in DOMAIN parameters \ required_params :
        /\ parameters[n].has_default
        /\ parameters[n].Default # "None"

\* The dashboard body of the template. found: the DashboardBody markers are
\* there and the text between them is JSON; widgets: the length of its list of
\* widgets.
DashboardDocs == [found : BOOLEAN, widgets : 0..MaxWidgets]

\* the values json_content.replace(...) substitutes for the placeholders
ConfiguredRegion == "us-east-1"
ConfiguredModelId == "amazon.nova-pro-v1:0"

\* region and ModelId values as the document spells them
DocRegions == {"none", "${MonitoringRegion}", "us-east-1", "us-west-2"}
DocModelIds == {"none", "no value", "${ModelId}", "amazon.nova-pro-v1:0", "amazon.titan"}

\* A metric of a widget, in one of three forms:
\*   "list":       [namespace, name, "ModelId", model, {"region": region}], the
\*                 dimension pair and the options object being optional ("none";
\*                 "no value": the list ends with "ModelId")
\*   "stat":       {"MetricStat": {..., "Region": region}}
\*   "expression": {"expression": ...}
Metric(form, namespace, model, region) ==
    [form |-> form, namespace |-> namespace, model |-> model, region |-> region]

\* the metrics a rule's input documents use: the region rule varies regions,
\* the dimension rule namespaces and ModelId values
DocMetrics(rule) ==
    IF rule = "test_region_consistency_across_metrics"
    THEN {Metric(f, "AWS/Bedrock", "${ModelId}", r) : f \in {"list", "stat"}, r \in DocRegions}
         \cup {Metric("expression", "none", "none", "none")}
    ELSE {Metric("list", n, m, "none") : n \in {"AWS/Bedrock", "AWS/Lambda"}, m \in DocModelIds}
         \cup {Metric(f, "none", "none", "none") : f \in {"stat", "expression"}}

DocWidgets(rule) ==
    LET regions == IF rule = "test_region_consistency_across_metrics"
                   THEN DocRegions ELSE {"${MonitoringRegion}"}
    IN  {[type |-> "metric", region |-> r, metrics |-> ms] :
            r \in regions,
            ms \in UNION {[1..k -> DocMetrics(rule)] : k \in 0..MaxMetrics}}
        \cup {[type |-> "log", region |-> r, metrics |-> <<>>] : r \in regions}

\* json_content.replace for the placeholders
SubstituteValue(v) ==
    CASE v = "${MonitoringRegion}" -> ConfiguredRegion
      [] v = "${ModelId}"          -> ConfiguredModelId
      [] OTHER                     -> v

Substitute(w) ==
    [w EXCEPT !.region = SubstituteValue(@),
              !.metrics = [i \in DOMAIN @ |->
                              [@[i] EXCEPT !.model = SubstituteValue(@),
                                           !.region = SubstituteValue(@)]]]

\* the assertions test_region_consistency_across_metrics makes on one metric
RegionMetricOk(m) ==
    IF m.form = "list" THEN TRUE
    ELSE IF m.form = "stat" THEN m.region \in {"none", "us-east-1"}
    ELSE TRUE

\* the body of its loop on one widget: "ok" or the exception raised
RegionCheck(w) ==
    IF w.region \notin {"none", "us-east-1"} THEN "AssertionError"
    ELSE IF w.type = "metric" /\ \E i \in DOMAIN w.metrics : ~RegionMetricOk(w.metrics[i])
    THEN "AssertionError"
    ELSE "ok"

\* what test_model_dimension_inclusion does on one metric
DimensionMetric(m) ==
    IF m.form = "list"
    THEN IF m.namespace = "AWS/Bedrock" /\ m.model # "amazon.nova-pro-v1:0"
         THEN "AssertionError" ELSE "ok"
    ELSE "AttributeError"      \* metric.lower() on a dict

\* the body of its loop on one widget: the first exception raised, or "ok"
DimensionCheck(w) ==
    IF w.type = "metric" /\ \E i \in DOMAIN w.metrics : DimensionMetric(w.metrics[i]) # "ok"
    THEN LET i == CHOOSE i \in DOMAIN w.metrics :
                    /\ DimensionMetric(w.metrics[i]) # "ok"
                    /\ \A j \in 1..(i - 1) : DimensionMetric(w.metrics[j]) = "ok"
         IN  DimensionMetric(w.metrics[i])
    ELSE "ok"

\* The Resources section of the template. An alarm is left out of the
\* document or is declared with one of these AlarmActions properties:
\*   "no key":        no AlarmActions key
\*   "empty":         AlarmActions: []
\*   "unconditional": AlarmActions: [!Ref AlarmTopic]
\*   "conditional":   AlarmActions: [!If [HasAlarmEmail, !Ref AlarmTopic, !Ref AWS::NoValue]]
expected_alarms ==
    <<"HighErrorRateAlarm", "HighP99LatencyAlarm", "DailyCostLimitAlarm",
      "HighThrottlingRateAlarm">>

AlarmNames == Range(expected_alarms) \cup {"ExtraAlarm"}

AlarmLines(a) ==
    IF a = "ExtraAlarm" THEN {"undeclared", "no key", "conditional"}
    ELSE {"undeclared", "no key", "empty", "unconditional", "conditional"}

\* found: the text has a Resources: marker and can be read; dashboard: it
\* declares the dashboard resource
ResourceDocs ==
    {[found |-> f, dashboard |-> d, alarms |-> al] :
        f \in BOOLEAN, d \in BOOLEAN,
        al \in {x \in [AlarmNames -> UNION {AlarmLines(a) : a \in AlarmNames}] :
                    \A a \in AlarmNames : x[a] \in AlarmLines(a)}}

\* what the extractor stores for an AlarmActions key: any value is recorded
\* as 'conditional'
ExtractedActions(line) == "conditional"

\* mutant of ExtractTemplateResources: the lines are read without looking
\* for the Resources: marker
ExtractTemplateResources_Unmarked(doc) ==
    [r \in {a \in AlarmNames : doc.alarms[a] # "undeclared"} |->
        [Type |-> "AWS::CloudWatch::Alarm", has_actions |-> doc.alarms[r] # "no key",
         AlarmActions |-> IF doc.alarms[r] # "no key"
                          THEN ExtractedActions(doc.alarms[r]) ELSE "none"]]
\* extract_template_resources: resource name -> Type and the recorded properties
ExtractTemplateResources(doc) ==
    IF ~doc.found THEN <<>>
    ELSE [r \in {a \in AlarmNames : doc.alarms[a] # "undeclared"}
                \cup (IF doc.dashboard THEN {"BedrockDashboard"} ELSE {}) |->
            IF r = "BedrockDashboard"
            THEN [Type |-> "AWS::CloudWatch::Dashboard", has_actions |-> FALSE,
                  AlarmActions |-> "none"]
            ELSE [Type |-> "AWS::CloudWatch::Alarm",
                  has_actions |-> doc.alarms[r] # "no key",
                  AlarmActions |-> IF doc.alarms[r] # "no key"
                                   THEN ExtractedActions(doc.alarms[r]) ELSE "none"]]

alarm_resources(resources) ==
    {r \in DOMAIN resources : resources[r].Type = "AWS::CloudWatch::Alarm"}

\* the alarms on which one of the two assertions of the loop fails
FailingAlarms(resources) ==
    {a \in alarm_resources(resources) :
        ~resources[a].has_actions \/ resources[a].AlarmActions # "conditional"}

MissingExpected(resources) ==
    SelectSeq(expected_alarms, LAMBDA a : a \notin alarm_resources(resources))

\* Resource protection: test_update_safe_resource_configuration and
\* test_resource_protection_policies
ProtectionRules ==
    {"test_update_safe_resource_configuration", "test_resource_protection_policies"}

critical_resources ==
    <<"NovaProDashboard", "AlarmTopic", "HighErrorRateAlarm", "HighP99LatencyAlarm",
      "DailyCostLimitAlarm", "HighThrottlingRateAlarm", "DashboardViewerPolicy",
      "DashboardViewerRole">>

\* the resources a document may declare: the critical ones and one more alarm
ProtectedNames == Range(critical_resources) \cup {"ExtraAlarm"}

ResourceType(r) ==
    CASE r = "NovaProDashboard" -> "AWS::CloudWatch::Dashboard"
      [] r = "AlarmTopic" -> "AWS::SNS::Topic"
      [] r = "DashboardViewerPolicy" -> "AWS::IAM::ManagedPolicy"
      [] r = "DashboardViewerRole" -> "AWS::IAM::Role"
      [] OTHER -> "AWS::CloudWatch::Alarm"

\* the property that names the physical resource
NameProperty(r) ==
    CASE r = "NovaProDashboard" -> "DashboardName"
      [] r = "AlarmTopic" -> "TopicName"
      [] r = "DashboardViewerPolicy" -> "ManagedPolicyName"
      [] r = "DashboardViewerRole" -> "RoleName"
      [] OTHER -> "AlarmName"

\* A declaration of a resource.  deletion, update: the value of the policy
\* line, "none" without the line.  name: the form of the name property,
\*   "Fn::Sub": a key Fn::Sub: under the property
\*   "Ref":     a key Ref: DashboardName under the property
\*   "own":     the quoted logical name of the resource, on the property line
\*   "other":   another quoted literal, on the property line
Retained == [declared |-> TRUE, deletion |-> "Retain", update |-> "Retain", name |-> "Fn::Sub"]

Undeclared == [declared |-> FALSE, deletion |-> "none", update |-> "none", name |-> "none"]

\* the ways a declaration departs from the retained, parameterised one
Deviations ==
    {Undeclared}
    \cup {[Retained EXCEPT !.deletion = v] : v \in {"none", "Delete"}}
    \cup {[Retained EXCEPT !.update = v] : v \in {"none", "Delete"}}
    \cup {[Retained EXCEPT !.name = v] : v \in {"Ref", "own", "other"}}

\* templates in which at most MaxDeviations critical resources depart from
\* the retained declaration, with or without one more alarm, and the template
\* that declares nothing
ProtectionDocs ==
    UNION {{[r \in ProtectedNames |->
                IF r = "ExtraAlarm" THEN (IF extra THEN Retained ELSE Undeclared)
                ELSE IF r \in S THEN dv[r] ELSE Retained] :
              dv \in [S -> Deviations], extra \in BOOLEAN} :
           S \in {T \in SUBSET Range(critical_resources) : Cardinality(T) <= MaxDeviations}}
    \cup {[r \in ProtectedNames |-> Undeclared]}

\* the lines of the declaration of r, each with its indentation
ResourceBlock(r, d) ==
    <<[indent |-> 2, key |-> r, value |-> ""],
      [indent |-> 4, key |-> "Type", value |-> ResourceType(r)]>>
    \o (IF d.deletion = "none" THEN <<>>
        ELSE <<[indent |-> 4, key |-> "DeletionPolicy", value |-> d.deletion]>>)
    \o (IF d.update = "none" THEN <<>>
        ELSE <<[indent |-> 4, key |-> "UpdateReplacePolicy", value |-> d.update]>>)
    \o <<[indent |-> 4, key |-> "Properties", value |-> ""]>>
    \o (CASE d.name \in {"own", "other"} ->
                <<[indent |-> 6, key |-> NameProperty(r), value |-> d.name]>>
          [] d.name \in {"Fn::Sub", "Ref"} ->
                <<[indent |-> 6, key |-> NameProperty(r), value |-> ""],
                  [indent |-> 8, key |-> d.name, value |-> "DashboardName"]>>
          [] OTHER -> <<>>)

\* extract_resource_policies: the policies and the Type of each declared
\* resource, None ("none") for a line that is absent
ExtractResourcePolicies(doc) ==
    [r \in {x \in ProtectedNames : doc[x].declared} |->
        LET block == ResourceBlock(r, doc[r])
            Line(key) == {i \in DOMAIN block : block[i].indent = 4 /\ block[i].key = key}
            Value(key) == IF Line(key) = {} THEN "none"
                          ELSE block[CHOOSE i \in Line(key) : TRUE].value
        IN  [DeletionPolicy |-> Value("DeletionPolicy"),
             UpdateReplacePolicy |-> Value("UpdateReplacePolicy"),
             Type |-> Value("Type")]]

\* content[start:content.find('\n  ', start + len(name) + 1)]: the text from
\* the resource name up to the first line break that two blanks follow
Section(block) ==
    LET Indented == {i \in 2..Len(block) : block[i].indent >= 2}
    IN  IF Indented = {} THEN block
        ELSE SubSeq(block, 1, (CHOOSE i \in Indented : \A j \in Indented : i <= j) - 1)

HasKey(section, key) == \E i \in DOMAIN section : section[i].key = key

HasLine(section, key, value) ==
    \E i \in DOMAIN section : section[i].key = key /\ section[i].value = value

\* check_replacement_forcing_properties: the resources it reports
ReplacementIssues(doc) ==
    LET Declared == {r \in ProtectedNames : doc[r].declared}
        Sec(r) == Section(ResourceBlock(r, doc[r]))
        Quoted(r) == doc[r].name \in {"own", "other"}
    IN  {r \in Declared \cap {"NovaProDashboard"} :
            Quoted(r) /\ ~\E x \in Declared : doc[x].name = "Ref"}
        \cup {r \in Declared \cap {"HighErrorRateAlarm", "HighP99LatencyAlarm",
                                   "DailyCostLimitAlarm", "HighThrottlingRateAlarm"} :
                /\ ~(HasKey(Sec(r), "AlarmName") /\ HasKey(Sec(r), "Fn::Sub"))
                /\ ~(HasKey(Sec(r), "AlarmName") /\ HasKey(Sec(r), "Ref"))
                /\ HasLine(Sec(r), "AlarmName", "own")}
        \cup {r \in Declared \cap {"AlarmTopic"} :
                /\ ~(HasKey(Sec(r), "TopicName") /\ HasKey(Sec(r), "Fn::Sub"))
                /\ HasLine(Sec(r), "TopicName", "own")}
        \cup {r \in Declared \cap {"DashboardViewerRole", "DashboardViewerPolicy"} :
                /\ ~(HasKey(Sec(r), NameProperty(r)) /\ HasKey(Sec(r), "Fn::Sub"))
                /\ HasLine(Sec(r), NameProperty(r), "own")}

update_safe_types ==
    {"AWS::CloudWatch::Dashboard", "AWS::CloudWatch::Alarm", "AWS::SNS::Topic",
     "AWS::IAM::Role", "AWS::IAM::ManagedPolicy"}

update_safe_validations(policies) ==
    {r \in DOMAIN policies : policies[r].Type \in update_safe_types}

\* the first assertion of the loop over critical_resources that fails, as
\* <<resource, policy>>; <<>> when the loop ends
PolicyFailure(policies) ==
    LET Fails(i) == /\ critical_resources[i] \in DOMAIN policies
                    /\ \/ policies[critical_resources[i]].DeletionPolicy # "Retain"
                       \/ policies[critical_resources[i]].UpdateReplacePolicy # "Retain"
        Failing == {i \in DOMAIN critical_resources : Fails(i)}
        first == CHOOSE i \in Failing : \A j \in Failing : i <= j
    IN  IF Failing = {} THEN <<>>
        ELSE <<critical_resources[first],
               IF policies[critical_resources[first]].DeletionPolicy # "Retain"
               THEN "DeletionPolicy" ELSE "UpdateReplacePolicy">>

\* The viewer policy: test_least_privilege_iam_permissions and
\* test_scoped_cloudwatch_permissions
IamRules ==
    {"test_least_privilege_iam_permissions", "test_scoped_cloudwatch_permissions"}

\* an action service:Words, by its service and the words of its second
\* segment in lower case
Action(service, words) == [service |-> service, words |-> words]

forbidden_verbs ==
    {"create", "delete", "update", "put", "post", "modify", "change", "set", "add",
     "remove", "attach", "detach"}

\* the statements extract_iam_policies looks for, in the order it appends them
statement_types == <<"dashboard", "metrics", "logs", "bedrock">>

\* the statements a document may hold: the four above and one whose action,
\* cloudwatch:DescribeAlarms, is none of the marker actions
StatementNames == Range(statement_types) \cup {"alarms"}

\* the action lists written in extract_iam_policies
statement_actions(type) ==
    CASE type = "dashboard" ->
            <<Action("cloudwatch", {"get", "dashboard"}),
              Action("cloudwatch", {"list", "dashboards"})>>
      [] type = "metrics" ->
            <<Action("cloudwatch", {"get", "metric", "data"}),
              Action("cloudwatch", {"get", "metric", "statistics"}),
              Action("cloudwatch", {"list", "metrics"})>>
      [] type = "logs" ->
            <<Action("logs", {"start", "query"}),
              Action("logs", {"get", "query", "results"}),
              Action("logs", {"describe", "log", "groups"})>>
      [] type = "bedrock" ->
            <<Action("bedrock", {"get", "model", "invocation", "logging", "configuration"}),
              Action("bedrock", {"list", "foundation", "models"})>>

statement_service(type) == statement_actions(type)[1].service

\* A statement of the policy document.  mutating: its Action list also names
\* an action of the same service whose verb is Put.  resource: the Resource
\* line, "arn" for an ARN of the dashboard or of the Bedrock log group,
\* "'*'" and "\"*\"" for the wildcard in single and in double quotes.
\* condition: "none" without a Condition block, "key" for a block on the key
\* the extractor looks for (cloudwatch:namespace, aws:RequestedRegion),
\* "other" for a block on another key.
Statements ==
    [present : {TRUE}, mutating : BOOLEAN, resource : {"arn", "'*'", "\"*\""},
     condition : {"none", "key", "other"}]

NoStatement == [present |-> FALSE, mutating |-> FALSE, resource |-> "arn", condition |-> "none"]

GoodStatement(s) ==
    CASE s \in {"dashboard", "logs"} ->
            [present |-> TRUE, mutating |-> FALSE, resource |-> "arn", condition |-> "none"]
      [] s \in {"metrics", "bedrock"} ->
            [present |-> TRUE, mutating |-> FALSE, resource |-> "'*'", condition |-> "key"]
      [] OTHER -> NoStatement

\* found: "none" when the text has no DashboardViewerPolicy:, "policy" when
\* the policy has no PolicyDocument: with a Statement:, "document" otherwise.
\* At most MaxDeviations statements depart from the read-only, scoped policy.
\* Each statement is longer than the window of 500 or 800 characters that the
\* extractor reads after its first action.
IamDocs ==
    UNION {{[found |-> f,
             statements |-> [s \in StatementNames |->
                                IF s \in S THEN dv[s] ELSE GoodStatement(s)]] :
              dv \in [S -> Statements \cup {NoStatement}],
              f \in {"none", "policy", "document"}} :
           S \in {T \in SUBSET StatementNames : Cardinality(T) <= MaxDeviations}}

\* the actions a statement of the document grants
GrantedActions(s, st) ==
    LET listed == IF s = "alarms" THEN {Action("cloudwatch", {"describe", "alarms"})}
                  ELSE Range(statement_actions(s))
        service == IF s = "alarms" THEN "cloudwatch" ELSE statement_service(s)
    IN  listed \cup (IF st.mutating THEN {Action(service, {"put", "dashboard"})} ELSE {})

\* the dictionary appended for a statement type; has_conditions is "absent"
\* where the dictionary has no such key
ExtractedStatement(type, st) ==
    [actions |-> statement_actions(type),
     resource_scoped |-> IF type \in {"dashboard", "logs"} THEN st.resource = "arn"
                         ELSE st.resource # "'*'",
     has_conditions |-> IF type \in {"dashboard", "logs"} THEN "absent"
                        ELSE IF st.condition = "key" THEN "True" ELSE "False",
     service |-> statement_service(type),
     statement_type |-> type]

\* extract_iam_policies: the statements of DashboardViewerInlinePolicy, <<>>
\* for the empty dictionary
ExtractIamPolicies(doc) ==
    IF doc.found # "document" THEN <<>>
    ELSE LET found == SelectSeq(statement_types, LAMBDA t : doc.statements[t].present)
         IN  [i \in DOMAIN found |-> ExtractedStatement(found[i], doc.statements[found[i]])]

\* action_verb of an action contains a forbidden verb
NonReadOnly(action) == action.words \cap forbidden_verbs # {}

\* the assertions of the loop body of test_least_privilege_iam_permissions
\* on one statement: the first that fails, "ok" when none does
LeastPrivilegeCheck(statement) ==
    IF \E i \in DOMAIN statement.actions : NonReadOnly(statement.actions[i])
    THEN "non-read-only action"
    ELSE IF /\ statement.service = "cloudwatch"
            /\ \E i \in DOMAIN statement.actions :
                  statement.actions[i].words \cap {"dashboard", "dashboards"} # {}
            /\ ~statement.resource_scoped
    THEN "dashboard actions should be resource-scoped"
    ELSE IF statement.service = "logs" /\ ~statement.resource_scoped
    THEN "logs actions should be resource-scoped"
    ELSE IF ~statement.resource_scoped /\ statement.has_conditions # "True"
    THEN "lacks conditions"
    ELSE "ok"

\* the assertions of the loop body of test_scoped_cloudwatch_permissions
ScopedCloudwatchCheck(statement) ==
    IF /\ \E i \in DOMAIN statement.actions :
             statement.actions[i].words \cap {"dashboard", "dashboards"} # {}
       /\ ~statement.resource_scoped
    THEN "dashboard actions should be resource-scoped"
    ELSE IF /\ \E i \in DOMAIN statement.actions :
                  statement.actions[i].words \cap {"metric", "metrics"} # {}
            /\ ~statement.resource_scoped
            /\ statement.has_conditions # "True"
    THEN "lacks namespace conditions"
    ELSE "ok"

\* the first failure of a loop over statements, as <<index, message>>, the
\* index counted from 0; <<>> when every statement passes
FirstFailure(statements, Failure) ==
    LET Failing == {i \in DOMAIN statements : Failure[i] # "ok"}
        first == CHOOSE i \in Failing : \A j \in Failing : i <= j
    IN  IF Failing = {} THEN <<>> ELSE <<first - 1, Failure[first]>>

cloudwatch_statements(statements) ==
    SelectSeq(statements, LAMBDA stmt : stmt.service = "cloudwatch")

\* Identity extraction: test_user_identity_extraction_consistency and
\* test_application_identity_extraction_consistency
IdentityRules ==
    {"test_user_identity_extraction_consistency",
     "test_application_identity_extraction_consistency"}

\* the identity a rule is about
Identity(rule) ==
    IF rule = "test_user_identity_extraction_consistency" THEN "user" ELSE "application"

\* the placeholder, the capture name and the title word of an identity
Placeholder(identity) ==
    IF identity = "user" THEN "${UserIdentityField}" ELSE "${ApplicationIdentityField}"

CaptureName(identity) == IF identity = "user" THEN "userId" ELSE "appName"

TitleWord(identity) == IF identity = "user" THEN "User" ELSE "Application"

\* A query of a log widget, after json.loads.  It parses one metadata field
\* into one capture group, or none ("none" everywhere):
\*   field:   the field name between the quotes, a placeholder or a literal
\*   capture: the name of the capture group
\*   fixed:   the text between them is  ":\s*"(?<  and the group is
\*            [^"]+)"  as in expected_pattern
NoExtraction == [field |-> "none", capture |-> "none", fixed |-> FALSE]

Queries ==
    {NoExtraction}
    \cup [field : {"${UserIdentityField}", "${ApplicationIdentityField}", "user_id", "app_name"},
          capture : {"userId", "appName", "uid"},
          fixed : BOOLEAN]

\* the widgets of the dashboard body that the identity rules may meet
AnalyticsWidgets ==
    [type : {"log", "metric"}, title : {"User", "Application", "Invocations"}, query : Queries]

\* text in query, for the texts the extractors and the rules look for
InQuery(text, query) == text \in {query.field, query.capture}

\* expected_pattern in query
ExpectedPatternIn(identity, query) ==
    /\ query.field = Placeholder(identity)
    /\ query.capture = CaptureName(identity)
    /\ query.fixed

\* extract_user_analytics_queries, extract_application_analytics_queries:
\* the widget is appended to the list
IsAnalyticsQuery(identity, w) ==
    /\ w.type = "log"
    /\ \/ InQuery(Placeholder(identity), w.query)
       \/ InQuery(CaptureName(identity), w.query)
       \/ w.title = TitleWord(identity)

\* the query is not skipped by the continue of the rule's loop
ExtractsIdentity(identity, query) ==
    InQuery(CaptureName(identity), query) \/ InQuery(Placeholder(identity), query)

\* mutant of IdentityCheck: only the first assertion is made
IdentityCheck_PlaceholderOnly(identity, w) ==
    IF ~IsAnalyticsQuery(identity, w) \/ ~ExtractsIdentity(identity, w.query) THEN "ok"
    ELSE IF ~InQuery(Placeholder(identity), w.query) THEN "should use parameter"
    ELSE "ok"
\* the loop body of an identity rule on one widget: the first assertion that
\* fails, "ok" when none does or when the widget is not in the list
IdentityCheck(identity, w) ==
    IF ~IsAnalyticsQuery(identity, w) \/ ~ExtractsIdentity(identity, w.query) THEN "ok"
    ELSE IF ~InQuery(Placeholder(identity), w.query) THEN "should use parameter"
    ELSE IF ~ExpectedPatternIn(identity, w.query) THEN "should use correct regex pattern"
    ELSE "ok"

TInit ==
    /\ tname \in Rules
    /\ tpc = "extract"
    /\ tdoc \in (CASE tname = "test_optional_parameters_have_defaults" -> ParameterDocs
                    [] tname \in DashboardRules -> DashboardDocs
                    [] tname = "test_alarm_sns_integration" -> ResourceDocs
                    [] tname \in ProtectionRules -> ProtectionDocs
                    [] tname \in IamRules -> IamDocs
                    [] tname \in IdentityRules -> DashboardDocs)
    /\ textracted = <<>>
    /\ tidx = 0
    /\ twidget = NoWidget
    /\ toutcome = "none"
    /\ tfailure = ""

TIdle ==
    /\ tname = "none"
    /\ tpc = "idle"
    /\ tdoc = <<>>
    /\ textracted = <<>>
    /\ tidx = 0
    /\ twidget = NoWidget
    /\ toutcome = "none"
    /\ tfailure = ""

\* load_template, through the try block or through the fallback
TemplateLoad ==
    /\ tname = "test_optional_parameters_have_defaults"
    /\ tpc = "extract"
    /\ \E parsed \in BOOLEAN : textracted' = Parameters(tdoc, parsed)
    /\ tpc' = "test"
    /\ UNCHANGED <<tname, tdoc, tidx, twidget, toutcome, tfailure, notT>>

TestOptionalParametersHaveDefaults ==
    /\ tname = "test_optional_parameters_have_defaults"
    /\ tpc = "test"
    /\ toutcome' = (IF OptionalParametersHaveDefaults(textracted) THEN "passed" ELSE "failed")
    /\ tpc' = "done"
    /\ UNCHANGED <<tname, tdoc, textracted, tidx, twidget, tfailure, notT>>

\* extract_dashboard_json: the parsed body, or None after any exception
ExtractDashboardJson ==
    /\ tname \in DashboardRules
    /\ tpc = "extract"
    /\ textracted' = [json |-> tdoc.found, widgets |-> IF tdoc.found THEN tdoc.widgets ELSE 0]
    /\ tpc' = "asserts"
    /\ UNCHANGED <<tname, tdoc, tidx, twidget, toutcome, tfailure, notT>>

\* assert dashboard_json is not None; assert len(widgets) > 0
DashboardAsserts ==
    /\ tname \in DashboardRules
    /\ tpc = "asserts"
    /\ IF textracted.json /\ textracted.widgets > 0
       THEN /\ tpc' = "loop"
            /\ UNCHANGED <<toutcome, tfailure>>
       ELSE /\ tpc' = "done"
            /\ toutcome' = "failed"
            /\ tfailure' = "AssertionError"
    /\ UNCHANGED <<tname, tdoc, textracted, tidx, twidget, notT>>

\* the loop body of a rule on one widget
CheckWidget(rule, w) ==
    IF rule = "test_region_consistency_across_metrics" THEN RegionCheck(w)
    ELSE DimensionCheck(w)

\* the loop body of a dashboard rule on the next widget of the body
WidgetStep(rule) ==
    /\ tname = rule
    /\ tpc = "loop"
    /\ tidx < textracted.widgets
    /\ \E w \in DocWidgets(rule) :
          /\ twidget' = Substitute(w)
          /\ IF CheckWidget(rule, Substitute(w)) = "ok"
             THEN /\ tpc' = "next"
                  /\ UNCHANGED <<toutcome, tfailure>>
             ELSE /\ tpc' = "done"
                  /\ toutcome' = "failed"
                  /\ tfailure' = CheckWidget(rule, Substitute(w))
    /\ tidx' = tidx + 1
    /\ UNCHANGED <<tname, tdoc, textracted, notT>>

TestRegionConsistencyAcrossMetrics ==
    WidgetStep("test_region_consistency_across_metrics")

TestModelDimensionInclusion ==
    WidgetStep("test_model_dimension_inclusion")

\* the loop moves on to the next widget
NextWidget ==
    /\ tname \in DashboardRules \cup {"test_user_identity_extraction_consistency",
                                     "test_application_identity_extraction_consistency"}
    /\ tpc = "next"
    /\ twidget' = NoWidget
    /\ tpc' = "loop"
    /\ UNCHANGED <<tname, tdoc, textracted, tidx, toutcome, tfailure, notT>>

\* the loop is over and no assertion failed
WidgetsDone ==
    /\ tname \in DashboardRules
    /\ tpc = "loop"
    /\ tidx = textracted.widgets
    /\ toutcome' = "passed"
    /\ tpc' = "done"
    /\ UNCHANGED <<tname, tdoc, textracted, tidx, twidget, tfailure, notT>>

RunExtractTemplateResources ==
    /\ tname = "test_alarm_sns_integration"
    /\ tpc = "extract"
    /\ textracted' = ExtractTemplateResources(tdoc)
    /\ tpc' = "test"
    /\ UNCHANGED <<tname, tdoc, tidx, twidget, toutcome, tfailure, notT>>

\* the assertions of test_alarm_sns_integration, in order; the loop over the
\* alarms stops at the first alarm, in document order, that fails
TestAlarmSnsIntegration ==
    /\ tname = "test_alarm_sns_integration"
    /\ tpc = "test"
    /\ IF DOMAIN textracted = {} \/ alarm_resources(textracted) = {}
       THEN toutcome' = "failed" /\ tfailure' = ""
       ELSE IF FailingAlarms(textracted) # {}
       THEN toutcome' = "failed" /\ tfailure' \in FailingAlarms(textracted)
       ELSE IF MissingExpected(textracted) # <<>>
       THEN toutcome' = "failed" /\ tfailure' = MissingExpected(textracted)[1]
       ELSE toutcome' = "passed" /\ tfailure' = ""
    /\ tpc' = "done"
    /\ UNCHANGED <<tname, tdoc, textracted, tidx, twidget, notT>>

RunExtractResourcePolicies ==
    /\ tname \in ProtectionRules
    /\ tpc = "extract"
    /\ textracted' = ExtractResourcePolicies(tdoc)
    /\ tpc' = "test"
    /\ UNCHANGED <<tname, tdoc, tidx, twidget, toutcome, tfailure, notT>>

\* the assertions of test_update_safe_resource_configuration, in order
TestUpdateSafeResourceConfiguration ==
    /\ tname = "test_update_safe_resource_configuration"
    /\ tpc = "test"
    /\ IF DOMAIN textracted = {}
       THEN toutcome' = "failed" /\ tfailure' = <<"extract">>
       ELSE IF PolicyFailure(textracted) # <<>>
       THEN toutcome' = "failed" /\ tfailure' = PolicyFailure(textracted)
       ELSE IF ReplacementIssues(tdoc) # {}
       THEN toutcome' = "failed" /\ tfailure' = <<"replacement">>
       ELSE IF Cardinality(update_safe_validations(textracted)) < Len(critical_resources)
       THEN toutcome' = "failed" /\ tfailure' = <<"validations">>
       ELSE toutcome' = "passed" /\ tfailure' = <<>>
    /\ tpc' = "done"
    /\ UNCHANGED <<tname, tdoc, textracted, tidx, twidget, notT>>

\* the assertions of test_resource_protection_policies
TestResourceProtectionPolicies ==
    /\ tname = "test_resource_protection_policies"
    /\ tpc = "test"
    /\ IF PolicyFailure(textracted) # <<>>
       THEN toutcome' = "failed" /\ tfailure' = PolicyFailure(textracted)
       ELSE toutcome' = "passed" /\ tfailure' = <<>>
    /\ tpc' = "done"
    /\ UNCHANGED <<tname, tdoc, textracted, tidx, twidget, notT>>

RunExtractIamPolicies ==
    /\ tname \in IamRules
    /\ tpc = "extract"
    /\ textracted' = ExtractIamPolicies(tdoc)
    /\ tpc' = "test"
    /\ UNCHANGED <<tname, tdoc, tidx, twidget, toutcome, tfailure, notT>>

\* the assertions of test_least_privilege_iam_permissions, in order
TestLeastPrivilegeIamPermissions ==
    /\ tname = "test_least_privilege_iam_permissions"
    /\ tpc = "test"
    /\ LET failure == FirstFailure(textracted,
                          [i \in DOMAIN textracted |-> LeastPrivilegeCheck(textracted[i])])
       IN  IF textracted = <<>>
           THEN toutcome' = "failed" /\ tfailure' = <<"extract">>
           ELSE IF failure # <<>>
           THEN toutcome' = "failed" /\ tfailure' = failure
           ELSE toutcome' = "passed" /\ tfailure' = <<>>
    /\ tpc' = "done"
    /\ UNCHANGED <<tname, tdoc, textracted, tidx, twidget, notT>>

\* the assertions of test_scoped_cloudwatch_permissions, in order
TestScopedCloudwatchPermissions ==
    /\ tname = "test_scoped_cloudwatch_permissions"
    /\ tpc = "test"
    /\ LET cw == cloudwatch_statements(textracted)
           failure == FirstFailure(cw, [i \in DOMAIN cw |-> ScopedCloudwatchCheck(cw[i])])
       IN  IF textracted = <<>>
           THEN toutcome' = "failed" /\ tfailure' = <<"extract">>
           ELSE IF cw = <<>>
           THEN toutcome' = "failed" /\ tfailure' = <<"cloudwatch">>
           ELSE IF failure # <<>>
           THEN toutcome' = "failed" /\ tfailure' = failure
           ELSE toutcome' = "passed" /\ tfailure' = <<>>
    /\ tpc' = "done"
    /\ UNCHANGED <<tname, tdoc, textracted, tidx, twidget, notT>>

\* extract_dashboard_json as the analytics extractors call it: None, or an
\* empty list of widgets, gives the empty list of queries
ExtractAnalyticsQueries ==
    /\ tname \in IdentityRules
    /\ tpc = "extract"
    /\ textracted' = [json |-> tdoc.found,
                      widgets |-> IF tdoc.found THEN tdoc.widgets ELSE 0,
                      queries |-> 0]
    /\ tpc' = "loop"
    /\ UNCHANGED <<tname, tdoc, tidx, twidget, toutcome, tfailure, notT>>

\* One widget of the body passes through the extractor's loop and, when it is
\* appended to the list, through the loop of the rule.  The two loops visit the
\* widgets in the same order and the rule stops at the first assertion that
\* fails, so they are run here together, one widget at a time.
IdentityStep(rule) ==
    /\ tname = rule
    /\ tpc = "loop"
    /\ tidx < textracted.widgets
    /\ \E w \in AnalyticsWidgets :
          /\ twidget' = w
          /\ textracted' = [textracted EXCEPT !.queries =
                                IF IsAnalyticsQuery(Identity(rule), w) THEN @ + 1 ELSE @]
          /\ IF IdentityCheck(Identity(rule), w) = "ok"
             THEN /\ tpc' = "next"
                  /\ UNCHANGED <<toutcome, tfailure>>
             ELSE /\ tpc' = "done"
                  /\ toutcome' = "failed"
                  /\ tfailure' = IdentityCheck(Identity(rule), w)
    /\ tidx' = tidx + 1
    /\ UNCHANGED <<tname, tdoc, notT>>

TestUserIdentityExtractionConsistency ==
    IdentityStep("test_user_identity_extraction_consistency")

TestApplicationIdentityExtractionConsistency ==
    IdentityStep("test_application_identity_extraction_consistency")

\* every widget was read: assert len(user_queries) > 0 decides
IdentityDone ==
    /\ tname \in IdentityRules
    /\ tpc = "loop"
    /\ tidx = textracted.widgets
    /\ IF textracted.queries = 0
       THEN toutcome' = "failed" /\ tfailure' = "should contain analytics queries"
       ELSE toutcome' = "passed" /\ UNCHANGED tfailure
    /\ tpc' = "done"
    /\ UNCHANGED <<tname, tdoc, textracted, tidx, twidget, notT>>

TNext ==
    \/ TemplateLoad
    \/ TestOptionalParametersHaveDefaults
    \/ ExtractDashboardJson
    \/ DashboardAsserts
    \/ TestRegionConsistencyAcrossMetrics
    \/ TestModelDimensionInclusion
    \/ NextWidget
    \/ WidgetsDone
    \/ RunExtractTemplateResources
    \/ TestAlarmSnsIntegration
    \/ RunExtractResourcePolicies
    \/ TestUpdateSafeResourceConfiguration
    \/ TestResourceProtectionPolicies
    \/ RunExtractIamPolicies
    \/ TestLeastPrivilegeIamPermissions
    \/ TestScopedCloudwatchPermissions
    \/ ExtractAnalyticsQueries
    \/ TestUserIdentityExtractionConsistency
    \/ TestApplicationIdentityExtractionConsistency
    \/ IdentityDone

-----------------------------------------------------------------------------
(* The five rules of run_validation, called in any order *)

\* the rule methods run_validation calls after load_template, in its order
rule_calls ==
    <<"validate_sns_policies", "validate_resource_structure",
      "validate_security_best_practices", "validate_production_readiness",
      "validate_template_size">>

\* one call of a rule method on the buckets b
CallRule(r, b, c, order) ==
    CASE r = "validate_sns_policies"            -> ValidateSnsPolicies(b, c, order)
      [] r = "validate_resource_structure"      -> ValidateResourceStructure(b, c)
      [] r = "validate_security_best_practices" -> ValidateSecurityBestPractices(b, c)
      [] r = "validate_production_readiness"    -> ValidateProductionReadiness(b, c)
      [] r = "validate_template_size"           -> ValidateTemplateSize(b, c)

\* the buckets after the rules of calls have run, first to last
RECURSIVE CallRules(_, _, _, _)
CallRules(calls_, b, c, order) ==
    IF calls_ = <<>> THEN b
    ELSE CallRules(Tail(calls_), CallRule(Head(calls_), b, c, order), c, order)

\* the templates that load, with at most MaxOrderEdits edits
OrderTemplates == {t \in Edited(MaxOrderEdits) \cup AdvisoryOnly : LoadTemplateResult(t)}

\* the state of run_validation right after load_template has returned True
OInit ==
    /\ tpl \in OrderTemplates
    /\ run = 1
    /\ prev = NoOutcome
    /\ vpc = "rules"
    /\ errors = LoadTemplate(EmptyBuckets, tpl).errors
    /\ warnings = LoadTemplate(EmptyBuckets, tpl).warnings
    /\ info = LoadTemplate(EmptyBuckets, tpl).info
    /\ success = "none"
    /\ vexit = -1
    /\ done = <<>>

OIdle == done = <<>>

\* any rule method not called yet is called
CallAnyRule ==
    /\ vpc = "rules"
    /\ \E r \in Range(rule_calls) \ Range(done) :
          /\ \E order \in Orders(SnsIterated(tpl)) :
                SetBuckets(CallRule(r, Buckets, tpl, order))
          /\ done' = Append(done, r)
    /\ UNCHANGED <<tpl, run, prev, vpc, success, vexit, pvars, wvars, tvars>>

\* "Print results" and "Overall result", once every rule method has run
OrderResults ==
    /\ vpc = "rules"
    /\ Range(done) = Range(rule_calls)
    /\ success' = OverallResult(Buckets)
    /\ vpc' = "exit"
    /\ UNCHANGED <<tpl, run, prev, errors, warnings, info, vexit, done, pvars, wvars, tvars>>

ONext ==
    \/ CallAnyRule
    \/ OrderResults

-----------------------------------------------------------------------------
(* Specifications *)

\* two fresh runs of the static validator on one template
Init == VInit /\ PIdle /\ WIdle /\ TIdle /\ OIdle
Next == VNext
Spec == Init /\ [][Next]_vars

\* one run of the live probe
ProbeInit == PInit /\ VIdle /\ WIdle /\ TIdle /\ OIdle
ProbeNext == PNext
ProbeSpec == ProbeInit /\ [][ProbeNext]_vars

\* the probe is one sequential process: it takes its next step whenever it has one
ProbeFairSpec == ProbeSpec /\ WF_vars(ProbeNext)

\* one run of the widget verifier
WidgetInit == WInit /\ VIdle /\ PIdle /\ TIdle /\ OIdle
WidgetNext == WNext
WidgetSpec == WidgetInit /\ [][WidgetNext]_vars

\* the validator's rules on one template, called in any order
OrderInit == OInit /\ PIdle /\ WIdle /\ TIdle
OrderNext == ONext
OrderSpec == OrderInit /\ [][OrderNext]_vars

\* one run of one rule of the template test suite
TestInit == TInit /\ VIdle /\ PIdle /\ WIdle /\ OIdle
TestNext == TNext
TestSpec == TestInit /\ [][TestNext]_vars

-----------------------------------------------------------------------------
(* Properties of the static validator, checked under Spec *)

\* C1: for an existing file, run_validation returns False (exit status 1)
\* exactly when the errors bucket is non-empty at the end of the run, and
\* True (exit status 0) otherwise, whatever the warnings bucket holds.
C1_FailIffErrors ==
    (vpc = "exited" /\ tpl.file # "missing") =>
        /\ success \in {"True", "False"}
        /\ (success = "False") <=> (errors # <<>>)
        /\ vexit = (IF errors # <<>> THEN 1 ELSE 0)

\* C1 witness: a run that passes with warnings
C1_Witness ==
    /\ vpc = "exited"
    /\ tpl.file = "ok"
    /\ errors = <<>>
    /\ warnings # <<>>
    /\ success = "True"
    /\ vexit = 0

\* the five section names of the claim, written out
FiveSections ==
    {"AWSTemplateFormatVersion", "Description", "Parameters", "Resources", "Outputs"}

\* C2: when the text lacks the marker of one of the five required sections,
\* the errors bucket holds "Missing required section" naming that section,
\* the run fails and the process exits with status 1.
C2_MissingSectionFails ==
    \A s \in FiveSections :
        (vpc = "exited" /\ tpl.file = "ok" /\ <<"section", s>> \notin tpl.marks) =>
            /\ \E k \in DOMAIN errors :
                    errors[k] = Msg("Missing required section", <<s>>, 0)
            /\ success = "False"
            /\ vexit = 1

\* C2 witness: scenario A, a run on a template whose only gap is Outputs
C2_Witness ==
    /\ vpc = "exited"
    /\ tpl = [GoodTemplate EXCEPT !.marks = @ \ {<<"section", "Outputs">>},
                                  !.top = @ \ {"Outputs"}]
    /\ errors = <<Msg("Missing required section", <<"Outputs">>, 0)>>
    /\ vexit = 1

\* the markers whose absence is an advisory gap
AdvisoryMarks ==
    {<<"tag", k>> : k \in {"Environment", "Owner", "CostCenter", "Purpose"}}
    \cup {<<"alarmkv", a>> : a \in {"ErrorRate", "Latency", "Cost", "Throttling"}}
    \cup {<<"word", w>> : w \in {"KmsMasterKeyId", "DeletionPolicy: Retain",
                                 "aws:SecureTransport", "aws:SourceAccount"}}

\* the template differs from the reference template in advisory items only
OnlyAdvisoryGaps(t) ==
    /\ t.file = "ok"
    /\ t.sns = GoodTemplate.sns
    /\ t.lines = GoodTemplate.lines
    /\ t.marks \subseteq GoodTemplate.marks
    /\ GoodTemplate.marks \ t.marks \subseteq AdvisoryMarks

\* C3: the security, production-readiness (tags, alarm categories) and size
\* checks never add an entry to the errors bucket, and a template whose only
\* gaps are advisory ends with exit status 0.
C3_AdvisoryChecksNeverFail ==
    /\ [][(vpc \in {"security", "production", "size"}) => (errors' = errors)]_vars
    /\ [](vpc = "exited" /\ OnlyAdvisoryGaps(tpl) => errors = <<>> /\ vexit = 0)

\* C3 witness: every tag, alarm category and security marker absent, size
\* above the limit, and the run exits 0 with warnings
C3_Witness ==
    /\ vpc = "exited"
    /\ tpl.marks = GoodTemplate.marks \ AdvisoryMarks
    /\ tpl.size > SizeLimit
    /\ OnlyAdvisoryGaps(tpl)
    /\ Len(warnings) = 10
    /\ vexit = 0

\* C4: two fresh runs on an unchanged template end with identical errors,
\* warnings and info lists (same entries, same order) and the same exit code.
C4_SameOutcomeTwice ==
    (run = 2 /\ vpc = "exited") =>
        /\ errors = prev.errors
        /\ warnings = prev.warnings
        /\ info = prev.info
        /\ vexit = prev.exit

-----------------------------------------------------------------------------
(* Properties of the live probe, checked under ProbeSpec *)

\* C5: the probe exits with status 0 exactly when at least 80% of the
\* invocations succeeded (boundary included) and the dashboard is reachable,
\* and with status 1 for every other combination.
C5_ExitZeroIffThreshold ==
    (ppc = "exited" /\ stack = "ok") =>
        pexit = (IF /\ 5 * Cardinality({k \in DOMAIN test_results : test_results[k].success})
                        >= 4 * Len(test_results)
                    /\ widget_verification.dashboard_accessible
                 THEN 0 ELSE 1)

\* the phases entered so far are an initial part of the fixed order
InOrder(ph) ==
    /\ Len(ph) <= 5
    /\ ph = SubSeq(<<"Invoking", "Waiting", "Querying", "Verifying", "Reporting">>, 1, Len(ph))

\* C6: the phases are entered in the order Invoking, Waiting, Querying,
\* Verifying, Reporting, each at most once, and Querying is entered only after
\* all wait_minutes one-minute sleeps have completed.
C6_PhasesInOrder ==
    /\ InOrder(phases)
    /\ ppc \in {"Invoking", "Waiting", "Querying", "Verifying", "Reporting"} =>
            phases # <<>> /\ phases[Len(phases)] = ppc
    /\ Len(phases) <= 2 => minute <= args.wait_minutes
    /\ Len(phases) >= 3 => minute = args.wait_minutes

\* C6 witness: a run with a non-zero wait that has reached Reporting
C6_Witness ==
    /\ ppc = "Reporting"
    /\ args.wait_minutes = 2
    /\ minute = 2
    /\ Len(phases) = 5

\* C7: generate_test_invocations(N) returns exactly N records numbered 1..N
\* in order, whichever invocations fail.
C7_AllInvocationsAttempted ==
    /\ \A k \in DOMAIN test_results : test_results[k].invocation = k
    /\ Len(test_results) <= args.invocations
    /\ Len(phases) >= 2 => Len(test_results) = args.invocations

\* C7 witness: the loop has returned three records, the first of them failed
C7_Witness ==
    /\ ppc = "Waiting"
    /\ args.invocations = 3
    /\ Len(test_results) = 3
    /\ ~test_results[1].success
    /\ test_results[3].success

\* C8: an exception raised by an invocation or by the dashboard / metric-data
\* query does not end the run: the invocation is recorded as failed, the
\* dashboard is marked not accessible, and every later phase is still entered
\* (and, when at least one invocation was attempted, the report is written).
C8_ExceptionsContained ==
    /\ (ppc = "exited" /\ stack = "ok") => Len(phases) = 5
    /\ (ppc = "exited" /\ stack = "ok" /\ test_results # <<>>) =>
            (report # "none" /\ report_file)
    /\ ("raised" \in {calls.get_dashboard, calls.get_metric_data}) =>
            /\ ~widget_verification.dashboard_accessible
            /\ widget_verification.error
            /\ Len(phases) >= 4
    /\ \A k \in DOMAIN test_results :
            (~test_results[k].success /\ Len(phases) >= 2) =>
                Len(test_results) = args.invocations

\* C8 witness: a run with a failed invocation followed by a successful one
\* and a failed dashboard query, which went on to write its report
C8_Witness ==
    /\ ppc = "exited"
    /\ Len(test_results) >= 2
    /\ ~test_results[1].success
    /\ test_results[2].success
    /\ calls.get_dashboard = "raised"
    /\ ~widget_verification.dashboard_accessible
    /\ report_file

\* C9: every run whose initialisation succeeds prints its report and writes
\* the report file before the process exits, for every N >= 0.
C9_ReportAlwaysWritten ==
    (ppc = "exited" /\ stack = "ok") => (report # "none" /\ report_file)

\* C10: when describing the stack fails during construction, no invocation,
\* wait or monitoring query is performed, no report is written, and the
\* process exits with status 1.
C10_InitFailureIsFatal ==
    stack = "raised" =>
        /\ ppc = "exited"
        /\ pexit = 1
        /\ test_results = <<>>
        /\ minute = 0
        /\ calls = NoCalls
        /\ report = "none"
        /\ ~report_file
        /\ phases = <<>>

\* C10 witness: a run that asked for invocations and a wait, and ended in
\* construction
C10_Witness ==
    /\ stack = "raised"
    /\ args.invocations > 0
    /\ args.wait_minutes > 0
    /\ pexit = 1


-----------------------------------------------------------------------------
(* Properties of the widget verifier, checked under WidgetSpec *)

CountedWidgets == Sum([i \in 1..Len(Categories) |-> widget_categories[Categories[i].name]])

\* C11 as stated: every widget is counted in exactly one of the six categories,
\* so the six counts sum to the number of widgets read.
C11_CountsSumToWidgets ==
    CountedWidgets = widx

\* C11 amended: every widget is counted in at most one category, and in none
\* when its title holds no keyword; the six counts sum to the number of widgets
\* whose title holds a keyword, and the loop reads every widget of the body.
C11_CountsSumToMatchedWidgets ==
    /\ CountedWidgets + unmatched = widx
    /\ widx <= widgets_n
    /\ (wpc \in {"return", "exited"} /\ metrics_data # NoMetricsData
            /\ missing_metrics(metrics_data) = {}) => widx = widgets_n

\* C11 witness: the loop is over, one widget was counted and one was not
C11_Witness ==
    /\ wpc = "exited"
    /\ wret = "True"
    /\ widgets_n = 2
    /\ widx = 2
    /\ unmatched = 1
    /\ CountedWidgets = 1

\* the category C12 expects for a title: the earliest, in the stated order,
\* with a keyword spelled in the title, whatever the title's case
ExpectedCategory(t) ==
    IF t.words \cap {"invocation", "tpm", "requests"} # {} THEN "Usage Overview"
    ELSE IF t.words \cap {"cost", "cache"} # {} THEN "Cost Tracking"
    ELSE IF t.words \cap {"latency", "performance"} # {} THEN "Performance Metrics"
    ELSE IF t.words \cap {"error", "success", "failed"} # {} THEN "Error Monitoring"
    ELSE IF t.words \cap {"token", "concurrent"} # {} THEN "Invocation Patterns"
    ELSE IF t.words \cap {"guardrail", "intervention"} # {} THEN "Guardrails"
    ELSE "none"

\* C12: a widget whose title holds keywords of several categories is counted
\* only in the earliest of them, in the order usage, cost, performance, error,
\* token/concurrency, guardrail; the match is made on the lower-cased title.
C12_FirstCategoryWins ==
    [][(widx' = widx + 1) =>
        \A n \in CategoryNames :
            widget_categories'[n] =
                widget_categories[n] + (IF n = ExpectedCategory(title') THEN 1 ELSE 0)]_vars

\* C12 witness: a title in capitals with a cost keyword and a guardrail keyword
\* was counted under Cost Tracking
C12_Witness ==
    /\ wpc = "print"
    /\ widx = 1
    /\ title = [words |-> {"cache", "guardrail"}, upper |-> TRUE]
    /\ widget_categories["Cost Tracking"] = 1
    /\ widget_categories["Guardrails"] = 0

\* C13: the verifier returns success (exit status 0) exactly when both fetches
\* succeeded, the three required series have data points, total invocations are
\* at least 3 and both token totals are above 0; it returns failure (exit
\* status 1) in every other case.
C13_SuccessIffSufficientData ==
    (wpc = "exited") =>
        /\ wret \in {"True", "False"}
        /\ wexit = (IF wret = "True" THEN 0 ELSE 1)
        /\ (wret = "True") <=>
              /\ \A m \in {"invocations", "input_tokens", "output_tokens"} :
                    metrics_data[m].present
              /\ metrics_data["invocations"].total >= 3
              /\ metrics_data["input_tokens"].total >= 1
              /\ metrics_data["output_tokens"].total >= 1

\* C13 witness: enough invocations, but the output-token series sums to 0
C13_Witness ==
    /\ wpc = "exited"
    /\ wexit = 1
    /\ metrics_data["invocations"].total = 3
    /\ metrics_data["input_tokens"].total = 1
    /\ metrics_data["output_tokens"].present
    /\ metrics_data["output_tokens"].total = 0


-----------------------------------------------------------------------------
(* Further properties of the static validator, checked under Spec *)

\* C14: the required-sections rule passes only when each of the five sections
\* is a top-level section of the document; a section whose name occurs only
\* inside a nested key or other text is reported as missing.
C14_NestedNameIsMissing ==
    \A s \in FiveSections :
        (vpc = "exited" /\ tpl.file = "ok" /\ s \notin tpl.top) =>
            \E k \in DOMAIN errors : errors[k] = Msg("Missing required section", <<s>>, 0)


\* the 11 action names of the allow-list, written out
AllowList ==
    {"AddPermission", "DeleteTopic", "GetDataProtectionPolicy", "GetTopicAttributes",
     "ListSubscriptionsByTopic", "ListTagsForResource", "Publish",
     "PutDataProtectionPolicy", "RemovePermission", "SetTopicAttributes", "Subscribe"}

\* the text sns:<name> occurs in the template, as a captured action or in any
\* other spelling the case-insensitive pattern matches
Occurs(name) == name \in tpl.sns \/ <<"pattern", "sns:" \o name>> \in tpl.marks

InErrors(m) == \E k \in DOMAIN errors : errors[k] = m

\* C15: validate_sns_policies records an error for every sns:<Name> outside
\* the allow-list, for a wildcard Action: *, and for any occurrence of
\* sns:Unsubscribe or sns:Receive; it records no error when every action is
\* allowed and none of the three patterns occurs.
C15_SnsErrors ==
    (vpc = "resources") =>
        /\ \A a \in tpl.sns \ AllowList : InErrors(Msg("Invalid SNS action found", <<a>>, 0))
        /\ (<<"pattern", "Action: *">> \in tpl.marks) =>
                InErrors(Msg("Wildcard action (*) not allowed in SNS policies", <<>>, 0))
        /\ Occurs("Unsubscribe") =>
                InErrors(Msg("sns:Unsubscribe is not a valid SNS topic policy action", <<>>, 0))
        /\ Occurs("Receive") =>
                InErrors(Msg("sns:Receive is not a valid SNS topic policy action", <<>>, 0))
        /\ (/\ tpl.sns \subseteq AllowList
            /\ <<"pattern", "Action: *">> \notin tpl.marks
            /\ ~Occurs("Unsubscribe")
            /\ ~Occurs("Receive")) => errors = <<>>

\* C15 witness: scenario C, sns:Receive occurs in the text outside any captured
\* action and next to valid actions only, and is reported
C15_Witness ==
    /\ vpc = "resources"
    /\ tpl.sns = {"Publish"}
    /\ <<"pattern", "sns:Receive">> \in tpl.marks
    /\ errors = <<Msg("sns:Receive is not a valid SNS topic policy action", <<>>, 0)>>

\* C16: a failed rule does not stop the other rule families: when a required
\* section is missing, the SNS-policy, security and size checks still run and
\* their findings are reported in the same run.
C16_OtherFamiliesStillRun ==
    (/\ vpc = "exited"
     /\ tpl.file = "ok"
     /\ \E s \in FiveSections : InErrors(Msg("Missing required section", <<s>>, 0))) =>
        /\ \A a \in tpl.sns \ AllowList : InErrors(Msg("Invalid SNS action found", <<a>>, 0))
        /\ \E k \in DOMAIN info :
                info[k].text \in {"Found least-privilege IAM policy", "No IAM resources"}
        /\ \/ \E k \in DOMAIN info : info[k].text = "Template size within limits"
           \/ \E k \in DOMAIN warnings : warnings[k].text = "Template size exceeds limit"


-----------------------------------------------------------------------------
(* Properties of the template test suite, checked under TestSpec *)

\* C17: the default-value rule passes exactly when every parameter extracted
\* from the Parameters section other than MonitoringRegion has a Default entry
\* whose value is not null; an empty-string default is accepted and
\* MonitoringRegion needs no default.
C17_DefaultsRule ==
    (tname = "test_optional_parameters_have_defaults" /\ tpc = "done") =>
        /\ toutcome \in {"passed", "failed"}
        /\ (toutcome = "passed") <=>
              \A n \in DOMAIN textracted :
                  (n # "MonitoringRegion") =>
                      (textracted[n].has_default /\ textracted[n].Default # "None")

\* C17 witness: the rule passed with an empty-string default and with
\* MonitoringRegion declared without a default
C17_Witness ==
    /\ tname = "test_optional_parameters_have_defaults"
    /\ tpc = "done"
    /\ toutcome = "passed"
    /\ DOMAIN textracted = {"MonitoringRegion", "AlarmEmail", "ErrorRateThreshold"}
    /\ ~textracted["MonitoringRegion"].has_default
    /\ textracted["AlarmEmail"].Default = "''"
    /\ tdoc["AlarmEmail"] = "empty"


\* a region given on the widget or on one of its metrics, in list form or in
\* MetricStat form, is not the configured region
RegionDiffers(w) ==
    \/ w.region \notin {"none", "us-east-1"}
    \/ /\ w.type = "metric"
       /\ \E i \in DOMAIN w.metrics :
            /\ w.metrics[i].form \in {"list", "stat"}
            /\ w.metrics[i].region \notin {"none", "us-east-1"}

\* C18: the region-consistency rule fails whenever a widget's region, or a
\* region override on one of the metrics of a metric widget, differs from the
\* configured region.
C18_RegionMismatchFails ==
    [][(/\ tname = "test_region_consistency_across_metrics"
        /\ tidx' = tidx + 1
        /\ RegionDiffers(twidget')) => (toutcome' = "failed")]_vars

\* every list-form AWS/Bedrock metric of the widget has ModelId followed by the
\* expected model id
BedrockMetricsDimensioned(w) ==
    \A i \in DOMAIN w.metrics :
        (w.metrics[i].form = "list" /\ w.metrics[i].namespace = "AWS/Bedrock") =>
            w.metrics[i].model = "amazon.nova-pro-v1:0"

\* C19: the dimension-inclusion rule fails for a metric widget with a list-form
\* AWS/Bedrock metric lacking ModelId followed by the expected model id, and
\* does not fail on a widget whose AWS/Bedrock metrics all have it.
C19_DimensionRule ==
    [][(/\ tname = "test_model_dimension_inclusion"
        /\ tidx' = tidx + 1) =>
            /\ (twidget'.type = "metric" /\ ~BedrockMetricsDimensioned(twidget'))
                    => (toutcome' = "failed")
            /\ BedrockMetricsDimensioned(twidget') => (toutcome' # "failed")]_vars


\* C20: the alarm-notification rule passes only if every alarm of the template
\* has an AlarmActions list that is non-empty and conditionally references the
\* notification topic; an alarm without the AlarmActions key makes the rule
\* fail with a message naming such an alarm.
C20_AlarmRule ==
    (tname = "test_alarm_sns_integration" /\ tpc = "done") =>
        /\ (toutcome = "passed") =>
              \A a \in DOMAIN tdoc.alarms :
                  tdoc.alarms[a] \in {"undeclared", "conditional"}
        /\ (tdoc.found /\ \E a \in DOMAIN tdoc.alarms : tdoc.alarms[a] = "no key") =>
              /\ toutcome = "failed"
              /\ tfailure \in DOMAIN tdoc.alarms
              /\ tdoc.alarms[tfailure] = "no key"


\* C21: test_update_safe_resource_configuration passes only if each of the
\* eight critical resources is declared with DeletionPolicy: Retain and
\* UpdateReplacePolicy: Retain; a critical resource that is missing, or whose
\* policy line is missing or has another value, makes the rule fail.
C21_CriticalResourcesRetained ==
    (tname = "test_update_safe_resource_configuration" /\ tpc = "done"
        /\ toutcome = "passed")
    => \A r \in Range(critical_resources) :
          /\ tdoc[r].declared
          /\ tdoc[r].deletion = "Retain"
          /\ tdoc[r].update = "Retain"

\* the resources whose name property is a quoted literal
Hardcoded(doc) ==
    {r \in Range(critical_resources) \ {"NovaProDashboard"} :
        doc[r].declared /\ doc[r].name \in {"own", "other"}}

\* C25: when one of the four critical alarms, the SNS topic, the IAM role or
\* the managed policy declares its name property as a hardcoded literal,
\* check_replacement_forcing_properties reports an issue and
\* test_update_safe_resource_configuration fails.
C25_HardcodedNameFails ==
    (tname = "test_update_safe_resource_configuration" /\ tpc = "done"
        /\ Hardcoded(tdoc) # {})
    => /\ ReplacementIssues(tdoc) # {}
       /\ toutcome = "failed"

\* the statements of the document, when the policy document is there
DocStatements(doc) ==
    IF doc.found # "document" THEN {}
    ELSE {s \in StatementNames : doc.statements[s].present}

\* C22: test_least_privilege_iam_permissions fails whenever the viewer policy
\* grants an action whose verb segment is mutating.
C22_MutatingActionFails ==
    (tname = "test_least_privilege_iam_permissions" /\ tpc = "done"
        /\ \E s \in DocStatements(tdoc) :
              \E a \in GrantedActions(s, tdoc.statements[s]) : NonReadOnly(a))
    => toutcome = "failed"

\* C23: test_least_privilege_iam_permissions passes only when every statement
\* of the viewer policy whose Resource is the wildcard carries a Condition; a
\* wildcard statement without a Condition makes the rule fail.
C23_WildcardNeedsCondition ==
    (tname = "test_least_privilege_iam_permissions" /\ tpc = "done"
        /\ toutcome = "passed")
    => \A s \in DocStatements(tdoc) :
          tdoc.statements[s].resource \in {"'*'", "\"*\""}
          => tdoc.statements[s].condition # "none"

MarkerAbsent(rule, doc) ==
    CASE rule = "test_optional_parameters_have_defaults" ->
            \A n \in ParameterNames : doc[n] = "undeclared"
      [] rule \in DashboardRules \cup IdentityRules -> ~doc.found
      [] rule = "test_alarm_sns_integration" -> ~doc.found
      [] rule \in ProtectionRules -> \A r \in ProtectedNames : ~doc[r].declared
      [] rule \in IamRules -> doc.found = "none"
      [] OTHER -> FALSE

\* what the extractors of a rule returned is an empty mapping or an empty list
EmptyStructure(rule, extracted) ==
    CASE rule \in DashboardRules -> extracted.json /\ extracted.widgets = 0
      [] rule \in IdentityRules -> extracted.queries = 0
      [] OTHER -> DOMAIN extracted = {}

-----------------------------------------------------------------------------
(* Further properties of the live probe, checked under ProbeSpec *)

C30_AccessibleIffDashboardFetched ==
    (calls.get_dashboard # "none") =>
        /\ widget_verification.dashboard_accessible <=> (calls.get_dashboard = "ok")
        /\ (calls.get_dashboard = "ok" /\ calls.get_metric_data = "raised") =>
                ~widget_verification.metrics_available


-----------------------------------------------------------------------------
(* Further properties of the widget verifier, checked under WidgetSpec *)

\* C26: the service throughput figure is (input tokens + 5 x output tokens) / 5
\* and the customer figure (input tokens + output tokens) / 5, both token
\* counts being those of the latest 5-minute sampling period.
C26_TpmOfLatestPeriod ==
    (tpm # NoTpm) =>
        /\ tpm.service.den = 5
        /\ tpm.service.num =
               metrics_data["input_tokens"].latest + 5 * metrics_data["output_tokens"].latest
        /\ tpm.customer.den = 5
        /\ tpm.customer.num =
               metrics_data["input_tokens"].latest + metrics_data["output_tokens"].latest


-----------------------------------------------------------------------------
(* Independence of the validator's rules, checked under OrderSpec *)

\* how often each entry occurs in a bucket
BagOf(bucket) ==
    [m \in Range(bucket) |-> Cardinality({i \in DOMAIN bucket : bucket[i] = m})]

\* C24: the contents of the errors, warnings and info buckets, as multisets,
\* and the pass/fail result are the same in whatever order the five rule
\* methods are called: they are those of a run in the order of run_validation.
C24_RuleOrderIrrelevant ==
    (vpc = "exit") =>
        \E order \in Orders(SnsIterated(tpl)) :
            LET b == CallRules(rule_calls, LoadTemplate(EmptyBuckets, tpl), tpl, order)
            IN  /\ BagOf(errors) = BagOf(b.errors)
                /\ BagOf(warnings) = BagOf(b.warnings)
                /\ BagOf(info) = BagOf(b.info)
                /\ success = OverallResult(b)

\* C24 witness: the rules ran in the reverse of run_validation's order on a
\* template with an error
C24_Witness ==
    /\ vpc = "exit"
    /\ done = <<"validate_template_size", "validate_production_readiness",
                "validate_security_best_practices", "validate_resource_structure",
                "validate_sns_policies">>
    /\ errors # <<>>
    /\ info # <<>>
    /\ success = "False"

====
